---- MODULE Spec2Model ----
(***************************************************************************)
(* State-machine model of port/cpl_aws.cpp: the AWS credential provider    *)
(* chain with its process-wide cache, the S3 handle helper (header         *)
(* signing, redirect handling) and their helpers.                          *)
(*                                                                         *)
(* Strings are TLA+ strings (TLC concatenates them with \o and cuts them   *)
(* with SubSeq).  SHA-256 and HMAC-SHA256 are free (injective) symbolic    *)
(* functions on strings.  HTTP responses and file contents are inputs.     *)
(* The model is of the Linux build (HAVE_CURL, __linux).                   *)
(***************************************************************************)
EXTENDS Integers, Sequences, FiniteSets, TLC

VARIABLES
    cache,   \* the process-wide credential cache (the gos*/gn* globals)
    h,       \* the live VSIS3HandleHelper (h.exists = FALSE when none)
    now,     \* time(nullptr), in seconds
    env,     \* options, config options, files and host facts of the process
    last,    \* what the last operation was given, did and returned
    goMapBucketsToS3Params,  \* VSIS3UpdateParams::goMapBucketsToS3Params
    pc,      \* where each thread of the process stands ("idle": in no call)
    local,   \* each thread's handle and the locals of the call it is in
    ghMutex, \* the mutex of the credential cache: its owner (0: free) and depth
    gsMutex  \* VSIS3UpdateParams::gsMutex: its owner (0: free)

vars == <<cache, h, now, env, last, goMapBucketsToS3Params, pc, local, ghMutex, gsMutex>>

\* What the threads add to the state of a process.
threadVars == <<pc, local, ghMutex, gsMutex>>

-----------------------------------------------------------------------------
(* Bounds and program constants *)

\* Seconds of margin kept before the expiration of cached credentials.
Margin == 60

\* Expiration (unix time) of the first / second credential set a server issues.
ExpA == 100
ExpB == 200

\* The instants the clock can be read at: around each reuse threshold.
TimeGrid ==
    {0} \cup UNION { {e - Margin - 1, e - Margin, e - Margin + 1} : e \in {ExpA, ExpB} }

-----------------------------------------------------------------------------
(* String helpers *)

CharAt(s, i) == SubSeq(s, i, i)

StartsWith(s, p) == Len(s) >= Len(p) /\ SubSeq(s, 1, Len(p)) = p

RECURSIVE FindCharFrom(_, _, _)
FindCharFrom(s, ch, i) ==
    IF i > Len(s) THEN 0
    ELSE IF CharAt(s, i) = ch THEN i
    ELSE FindCharFrom(s, ch, i + 1)

\* std::string::find(ch): the first position of ch in s, 0 when absent.
FindChar(s, ch) == FindCharFrom(s, ch, 1)

\* strstr(s, p): the first position at which p occurs in s, 0 when absent.
FindStr(s, p) ==
    LET hits == { i \in 1..(Len(s) - Len(p) + 1) : SubSeq(s, i, i + Len(p) - 1) = p }
    IN IF hits = {} THEN 0 ELSE CHOOSE i \in hits : \A j \in hits : i <= j

UpperAlpha == "ABCDEFGHIJKLMNOPQRSTUVWXYZ"
LowerAlpha == "abcdefghijklmnopqrstuvwxyz"
DigitChars == "0123456789"

\* tolower(), as a table.
LowerOf == [ch \in { CharAt(UpperAlpha, i) : i \in 1..26 } |->
               CharAt(LowerAlpha, FindChar(UpperAlpha, ch))]

ToLowerChar(ch) == IF ch \in DOMAIN LowerOf THEN LowerOf[ch] ELSE ch

RECURSIVE ToLower(_)
ToLower(s) == IF s = "" THEN "" ELSE ToLowerChar(CharAt(s, 1)) \o ToLower(SubSeq(s, 2, Len(s)))

\* EQUAL(): case-insensitive comparison.
EQUAL(a, b) == Len(a) = Len(b) /\ ToLower(a) = ToLower(b)

STARTS_WITH_CI(s, p) == Len(s) >= Len(p) /\ EQUAL(SubSeq(s, 1, Len(p)), p)

RECURSIVE TrimLeft(_)
TrimLeft(s) == IF s # "" /\ CharAt(s, 1) = " " THEN TrimLeft(SubSeq(s, 2, Len(s))) ELSE s

RECURSIVE TrimRight(_)
TrimRight(s) ==
    IF s # "" /\ CharAt(s, Len(s)) = " " THEN TrimRight(SubSeq(s, 1, Len(s) - 1)) ELSE s

\* CPLString::Trim()
Trim(s) == TrimRight(TrimLeft(s))

\* CPLTestBool(): everything is true except NO, FALSE, OFF and 0.
CPLTestBool(s) == ~(EQUAL(s, "NO") \/ EQUAL(s, "FALSE") \/ EQUAL(s, "OFF") \/ EQUAL(s, "0"))

Pad2(n) == CharAt(DigitChars, (n \div 10) + 1) \o CharAt(DigitChars, (n % 10) + 1)

-----------------------------------------------------------------------------
(* Primitives: hashes, timestamps *)

CPLGetLowerCaseHexSHA256(s) == "sha256(" \o s \o ")"

CPL_HMAC_SHA256(key, msg) == "hmac(" \o key \o "," \o msg \o ")"

\* CPLGetAWS_SIGN4_Timestamp(): YYYYMMDDTHHMMSSZ, for an instant of 1970-01-01.
CPLGetAWS_SIGN4_Timestamp(t) ==
    "19700101T" \o Pad2(t \div 3600) \o Pad2((t \div 60) % 60) \o Pad2(t % 60) \o "Z"

\* An ISO-8601 text is held as the integer fields sscanf reads from it:
\* <<year, month, day, hour, minute, second>>, fewer when the text is cut short.
UnixTimeToIso8601(t) == <<1970, 1, 1, t \div 3600, (t \div 60) % 60, t % 60>>

\* Iso8601ToUnixTime(): fails unless six fields are read.
Iso8601ToUnixTime(dt) ==
    IF Len(dt) = 6
    THEN [ok |-> TRUE, t |-> (dt[4] * 60 + dt[5]) * 60 + dt[6]]
    ELSE [ok |-> FALSE, t |-> 0]

-----------------------------------------------------------------------------
(* Options *)

\* CSLFetchNameValueDef(papszOptions, key, default)
CSLFetchNameValueDef(opts, key, def) == IF key \in DOMAIN opts THEN opts[key] ELSE def

\* CPLGetConfigOption(key, default)
CPLGetConfigOption(e, key, def) == IF key \in DOMAIN e.config THEN e.config[key] ELSE def

\* VSIGetPathSpecificOption(path, key, default): the option set for the path,
\* else the configuration option.
VSIGetPathSpecificOption(e, key, def) ==
    IF key \in DOMAIN e.pathOptions THEN e.pathOptions[key] ELSE CPLGetConfigOption(e, key, def)

\* VSIFOpenL / VSIIngestFile: the content of a file, <<>> or "" when it cannot be opened.
FileExists(e, path) == path \in DOMAIN e.files
FileLines(e, path) == IF FileExists(e, path) THEN e.files[path] ELSE <<>>
FileText(e, path) == IF FileExists(e, path) THEN e.files[path] ELSE ""

-----------------------------------------------------------------------------
(* The process-wide credential cache *)

EmptyCache ==
    [gosIAMRole |-> "",
     gosGlobalAccessKeyId |-> "",
     gosGlobalSecretAccessKey |-> "",
     gosGlobalSessionToken |-> "",
     gnGlobalExpiration |-> 0,
     gosRegion |-> "",
     gosRoleArn |-> "",
     gosExternalId |-> "",
     gosMFASerial |-> "",
     gosRoleSessionName |-> "",
     gosSourceProfileAccessKeyId |-> "",
     gosSourceProfileSecretAccessKey |-> "",
     gosSourceProfileSessionToken |-> "",
     gosRoleArnWebIdentity |-> "",
     gosWebIdentityTokenFile |-> ""]

\* "Try to reuse credentials if they are still valid, but keep one minute of margin"
CredentialsStillValid_Inclusive(c, t) ==
    c.gosGlobalAccessKeyId # "" /\ t <= c.gnGlobalExpiration - Margin

CredentialsStillValid(c, t) ==
    c.gosGlobalAccessKeyId # "" /\ t < c.gnGlobalExpiration - Margin

ClearCache_KeepsCredentials(c) ==
    [EmptyCache EXCEPT !.gosGlobalAccessKeyId = c.gosGlobalAccessKeyId,
                       !.gosGlobalSecretAccessKey = c.gosGlobalSecretAccessKey,
                       !.gosGlobalSessionToken = c.gosGlobalSessionToken,
                       !.gnGlobalExpiration = c.gnGlobalExpiration]

\* VSIS3HandleHelper::ClearCache(): the cache after it.
ClearedCache(c) ==
    [c EXCEPT !.gosIAMRole = "",
              !.gosGlobalAccessKeyId = "",
              !.gosGlobalSecretAccessKey = "",
              !.gosGlobalSessionToken = "",
              !.gnGlobalExpiration = 0,
              !.gosRoleArn = "",
              !.gosExternalId = "",
              !.gosMFASerial = "",
              !.gosRoleSessionName = "",
              !.gosSourceProfileAccessKeyId = "",
              !.gosSourceProfileSecretAccessKey = "",
              !.gosSourceProfileSessionToken = "",
              !.gosRegion = "",
              !.gosRoleArnWebIdentity = "",
              !.gosWebIdentityTokenFile = ""]

-----------------------------------------------------------------------------
(* Config and credentials files *)

\* CPLParseNameValue(): split at the first '=' or ':', blanks around it dropped.
CPLParseNameValue(line) ==
    LET seps == { i \in 1..Len(line) : CharAt(line, i) \in {"=", ":"} }
    IN IF seps = {} THEN [ok |-> FALSE, key |-> "", value |-> ""]
       ELSE LET i == CHOOSE k \in seps : \A j \in seps : k <= j
            IN [ok |-> TRUE,
                key |-> TrimRight(SubSeq(line, 1, i - 1)),
                value |-> TrimLeft(SubSeq(line, i + 1, Len(line)))]

RECURSIVE ReadCredentialsLines(_, _, _, _)
ReadCredentialsLines(lines, osBracketedProfile, bInProfile, acc) ==
    IF lines = <<>> THEN acc
    ELSE LET line == Head(lines) IN
         IF StartsWith(line, "[")
         THEN IF bInProfile THEN acc
              ELSE ReadCredentialsLines(Tail(lines), osBracketedProfile,
                                        line = osBracketedProfile, acc)
         ELSE IF bInProfile
         THEN LET kv == CPLParseNameValue(line)
                  acc2 == IF ~kv.ok THEN acc
                          ELSE IF EQUAL(kv.key, "aws_access_key_id")
                               THEN [acc EXCEPT !.osAccessKeyId = kv.value]
                          ELSE IF EQUAL(kv.key, "aws_secret_access_key")
                               THEN [acc EXCEPT !.osSecretAccessKey = kv.value]
                          ELSE IF EQUAL(kv.key, "aws_session_token")
                               THEN [acc EXCEPT !.osSessionToken = kv.value]
                          ELSE acc
              IN ReadCredentialsLines(Tail(lines), osBracketedProfile, TRUE, acc2)
         ELSE ReadCredentialsLines(Tail(lines), osBracketedProfile, FALSE, acc)

\* ReadAWSCredentials(): the three out-parameters are cleared first.
ReadAWSCredentials(e, osProfile, osCredentials) ==
    LET r == ReadCredentialsLines(FileLines(e, osCredentials), "[" \o osProfile \o "]", FALSE,
                                  [osSecretAccessKey |-> "", osAccessKeyId |-> "",
                                   osSessionToken |-> ""])
    IN [ret |-> r.osSecretAccessKey # "" /\ r.osAccessKeyId # "",
        osSecretAccessKey |-> r.osSecretAccessKey,
        osAccessKeyId |-> r.osAccessKeyId,
        osSessionToken |-> r.osSessionToken]

UpdateAndWarnIfInconsistent_ConfigWins(pszKeyword, osVal, osNewVal, osCredentials, osConfig) ==
    [val |-> osNewVal, warnings |-> <<>>]

\* UpdateAndWarnIfInconsistent(): the credentials file's value has the priority.
\* The result is the value kept and the warnings emitted.
UpdateAndWarnIfInconsistent(pszKeyword, osVal, osNewVal, osCredentials, osConfig) ==
    IF osVal = "" THEN [val |-> osNewVal, warnings |-> <<>>]
    ELSE IF osVal # osNewVal
    THEN [val |-> osVal,
          warnings |-> <<pszKeyword \o " defined in both " \o osCredentials \o " and "
                         \o osConfig \o ". The one of " \o osCredentials
                         \o " will be used">>]
    ELSE [val |-> osVal, warnings |-> <<>>]

\* One key = value line of the selected profile of the config file.
ConfigKeyValue(p, key, value, osConfig) ==
    LET Update(osVal) ==
            UpdateAndWarnIfInconsistent(key, osVal, value, p.osCredentials, osConfig)
        AccessKeyId(u) ==
            [p EXCEPT !.osAccessKeyId = u.val, !.warnings = @ \o u.warnings]
        SecretAccessKey(u) ==
            [p EXCEPT !.osSecretAccessKey = u.val, !.warnings = @ \o u.warnings]
        SessionToken(u) ==
            [p EXCEPT !.osSessionToken = u.val, !.warnings = @ \o u.warnings]
    IN IF EQUAL(key, "aws_access_key_id") THEN AccessKeyId(Update(p.osAccessKeyId))
       ELSE IF EQUAL(key, "aws_secret_access_key")
       THEN SecretAccessKey(Update(p.osSecretAccessKey))
       ELSE IF EQUAL(key, "aws_session_token") THEN SessionToken(Update(p.osSessionToken))
       ELSE IF EQUAL(key, "region") THEN [p EXCEPT !.osRegion = value]
       ELSE IF key = "role_arn" THEN [p EXCEPT !.osRoleArn = value]
       ELSE IF key = "source_profile" THEN [p EXCEPT !.osSourceProfile = value]
       ELSE IF key = "external_id" THEN [p EXCEPT !.osExternalId = value]
       ELSE IF key = "mfa_serial" THEN [p EXCEPT !.osMFASerial = value]
       ELSE IF key = "role_session_name" THEN [p EXCEPT !.osRoleSessionName = value]
       ELSE IF key = "web_identity_token_file"
       THEN [p EXCEPT !.osWebIdentityTokenFile = value]
       ELSE p

RECURSIVE ReadConfigLines(_, _, _, _, _)
ReadConfigLines(lines, osProfile, bInProfile, p, osConfig) ==
    IF lines = <<>> THEN p
    ELSE LET line == Head(lines) IN
         IF StartsWith(line, "[")
         THEN IF bInProfile THEN p
              ELSE ReadConfigLines(Tail(lines), osProfile,
                                   \/ line = "[" \o osProfile \o "]"
                                   \/ line = "[profile " \o osProfile \o "]",
                                   p, osConfig)
         ELSE IF bInProfile
         THEN LET kv == CPLParseNameValue(line)
              IN ReadConfigLines(Tail(lines), osProfile, TRUE,
                                 IF kv.ok THEN ConfigKeyValue(p, kv.key, kv.value, osConfig)
                                 ELSE p,
                                 osConfig)
         ELSE ReadConfigLines(Tail(lines), osProfile, FALSE, p, osConfig)

\* The in/out string parameters of GetConfigurationFromAWSConfigFiles, all empty.
NoFileParams ==
    [osSecretAccessKey |-> "", osAccessKeyId |-> "", osSessionToken |-> "",
     osRegion |-> "", osCredentials |-> "", osRoleArn |-> "", osSourceProfile |-> "",
     osExternalId |-> "", osMFASerial |-> "", osRoleSessionName |-> "",
     osWebIdentityTokenFile |-> "", warnings |-> <<>>]

\* GetConfigurationFromAWSConfigFiles().  pszProfile is <<>> for nullptr, else <<name>>.
\* p holds the in/out string parameters; the result holds them as left by the call.
GetConfigurationFromAWSConfigFiles(e, pszProfile, p) ==
    LET pszProfile2 ==
            IF pszProfile # <<>> THEN pszProfile[1]
            ELSE LET d == VSIGetPathSpecificOption(e, "AWS_DEFAULT_PROFILE", "")
                 IN IF d = "" THEN VSIGetPathSpecificOption(e, "AWS_PROFILE", "") ELSE d
        osProfile == IF pszProfile2 # "" THEN pszProfile2 ELSE "default"
        osDotAws == CPLGetConfigOption(e, "HOME", "") \o "/" \o ".aws"
        osCredentials ==
            VSIGetPathSpecificOption(e, "CPL_AWS_CREDENTIALS_FILE", osDotAws \o "/" \o "credentials")
        rc == ReadAWSCredentials(e, osProfile, osCredentials)
        osConfig == VSIGetPathSpecificOption(e, "AWS_CONFIG_FILE", osDotAws \o "/" \o "config")
        p1 == [p EXCEPT !.osCredentials = osCredentials,
                        !.osSecretAccessKey = rc.osSecretAccessKey,
                        !.osAccessKeyId = rc.osAccessKeyId,
                        !.osSessionToken = rc.osSessionToken]
        Result(p2) ==
            [ret |-> \/ (p2.osAccessKeyId # "" /\ p2.osSecretAccessKey # "")
                     \/ (p2.osRoleArn # "" /\ p2.osSourceProfile # "")
                     \/ (pszProfile # <<>> /\ p2.osRoleArn # ""
                            /\ p2.osWebIdentityTokenFile # ""),
             p |-> p2]
    IN Result(ReadConfigLines(FileLines(e, osConfig), osProfile, FALSE, p1, osConfig))

-----------------------------------------------------------------------------
(* HTTP responses of STS and of the instance metadata service *)

\* The Credentials element of an STS response, or the JSON of IMDS/ECS, as the
\* values the code extracts from it ("" for a missing one); found = FALSE when the
\* fetch failed or the body holds no credentials.
NoCredentials ==
    [found |-> FALSE, AccessKeyId |-> "", SecretAccessKey |-> "", SessionToken |-> "",
     Expiration |-> <<>>]

IssuedCredentials(id, exp) ==
    [found |-> TRUE, AccessKeyId |-> "AK_" \o id, SecretAccessKey |-> "SK_" \o id,
     SessionToken |-> "TK_" \o id, Expiration |-> UnixTimeToIso8601(exp)]

\* The credential set a key, secret or token belongs to.
CredentialSetOf(s) == SubSeq(s, 4, Len(s))

\* The responses a server of the given behaviours can give to one request.
Responses(id, behaviours) ==
    (IF "down" \in behaviours THEN {NoCredentials} ELSE {})
    \cup (IF "up" \in behaviours
          THEN {IssuedCredentials(id \o "1", ExpA), IssuedCredentials(id \o "2", ExpB)}
          ELSE {})
    \cup (IF "nokey" \in behaviours
          THEN {[IssuedCredentials(id \o "3", ExpB) EXCEPT !.AccessKeyId = ""]}
          ELSE {})
    \cup (IF "notoken" \in behaviours
          THEN {[IssuedCredentials(id \o "4", ExpB) EXCEPT !.SessionToken = ""]}
          ELSE {})
    \cup (IF "baddate" \in behaviours
          THEN {[IssuedCredentials(id \o "5", ExpB) EXCEPT !.Expiration = <<1970, 1, 1>>]}
          ELSE {})

-----------------------------------------------------------------------------
(* Credential providers.  Each yields the set of its possible outcomes:      *)
(* c the cache after the call, ret its return value, the three in/out        *)
(* credential strings, fetches the HTTP requests it made in order, and calls *)
(* one entry per provider call made, in order of return.                     *)

Outcome(c, ret, sk, ak, tok, fetches, calls) ==
    [c |-> c, ret |-> ret, osSecretAccessKey |-> sk, osAccessKeyId |-> ak,
     osSessionToken |-> tok, fetches |-> fetches, calls |-> calls]

\* The entry of one provider call: the cached access key id and expiration it
\* found at entry, the time, the number of fetches it made, what it returned.
CallEntry(fn, bForceRefresh, c, t, nFetches, ret, ak) ==
    [fn |-> fn, bForceRefresh |-> bForceRefresh,
     gosGlobalAccessKeyId |-> c.gosGlobalAccessKeyId,
     gnGlobalExpiration |-> c.gnGlobalExpiration, now |-> t,
     nFetches |-> nFetches, ret |-> ret, osAccessKeyId |-> ak]

\* ReadAWSWebIdentityTokenFile(): the token, one trailing end of line removed.
ReadAWSWebIdentityTokenFile(e, osWebIdentityTokenFile) ==
    LET text == FileText(e, osWebIdentityTokenFile)
        token == IF text # "" /\ CharAt(text, Len(text)) = "\n"
                 THEN SubSeq(text, 1, Len(text) - 1) ELSE text
    IN [ok |-> FileExists(e, osWebIdentityTokenFile) /\ token # "", token |-> token]

\* The part of GetConfigurationFromAssumeRoleWithWebIdentity after the fetch.
WebIdentityAfterFetch(c, resp, sk, ak, tok) ==
    LET ak2 == IF resp.found THEN resp.AccessKeyId ELSE ak
        sk2 == IF resp.found THEN resp.SecretAccessKey ELSE sk
        tok2 == IF resp.found THEN resp.SessionToken ELSE tok
        osExpiration == IF resp.found THEN resp.Expiration ELSE <<>>
        exp == Iso8601ToUnixTime(osExpiration)
        c2 == IF ak2 # "" /\ sk2 # "" /\ tok2 # "" /\ exp.ok
              THEN [c EXCEPT !.gosGlobalAccessKeyId = ak2,
                             !.gosGlobalSecretAccessKey = sk2,
                             !.gosGlobalSessionToken = tok2,
                             !.gnGlobalExpiration = exp.t]
              ELSE c
    IN [c |-> c2, ret |-> ak2 # "" /\ sk2 # "" /\ tok2 # "", sk |-> sk2, ak |-> ak2, tok |-> tok2]

\* VSIS3HandleHelper::GetConfigurationFromAssumeRoleWithWebIdentity()
GetConfigurationFromAssumeRoleWithWebIdentity(c, t, e, bForceRefresh, osRoleArnIn, osWebIdentityTokenFileIn, sk, ak, tok) ==
    LET fn == "GetConfigurationFromAssumeRoleWithWebIdentity"
        valid == CredentialsStillValid(c, t)
        fail == {Outcome(c, FALSE, sk, ak, tok, <<>>,
                         <<CallEntry(fn, bForceRefresh, c, t, 0, FALSE, ak)>>)}
        roleArn == IF osRoleArnIn # "" THEN osRoleArnIn
                   ELSE VSIGetPathSpecificOption(e, "AWS_ROLE_ARN", "")
        webIdentityTokenFile ==
            IF osWebIdentityTokenFileIn # "" THEN osWebIdentityTokenFileIn
            ELSE VSIGetPathSpecificOption(e, "AWS_WEB_IDENTITY_TOKEN_FILE", "")
    IN IF ~bForceRefresh /\ valid
       THEN {Outcome(c, TRUE, c.gosGlobalSecretAccessKey, c.gosGlobalAccessKeyId,
                     c.gosGlobalSessionToken, <<>>,
                     <<CallEntry(fn, bForceRefresh, c, t, 0, TRUE,
                                 c.gosGlobalAccessKeyId)>>)}
       ELSE IF roleArn = "" THEN fail
       ELSE IF webIdentityTokenFile = "" THEN fail
       ELSE IF ~ReadAWSWebIdentityTokenFile(e, webIdentityTokenFile).ok THEN fail
       ELSE { LET r == WebIdentityAfterFetch(c, resp, sk, ak, tok)
              IN Outcome(r.c, r.ret, r.sk, r.ak, r.tok,
                         <<"sts:AssumeRoleWithWebIdentity">>,
                         <<CallEntry(fn, bForceRefresh, c, t, 1, r.ret, r.ak)>>)
              : resp \in Responses("WEB", e.stsWebIdentity) }

\* IsMachinePotentiallyEC2Instance(), Linux build.
IsMachinePotentiallyEC2Instance(e) ==
    IF ~CPLTestBool(CPLGetConfigOption(e, "CPL_AWS_AUTODETECT_EC2", "YES")) THEN TRUE
    ELSE IF LET opt == CPLGetConfigOption(e, "CPL_AWS_CHECK_HYPERVISOR_UUID", "")
            IN opt # "" /\ ~CPLTestBool(opt)
         THEN TRUE
    ELSE IF FileExists(e, "/sys/hypervisor/uuid")
         THEN STARTS_WITH_CI(FileText(e, "/sys/hypervisor/uuid"), "ec2")
    ELSE IF FileExists(e, "/sys/devices/virtual/dmi/id/sys_vendor")
         THEN STARTS_WITH_CI(FileText(e, "/sys/devices/virtual/dmi/id/sys_vendor"), "Amazon EC2")
    ELSE TRUE

\* The end of GetConfigurationFromEC2: the credentials fetch and what follows it.
EC2AfterFetch(c, resp) ==
    LET ak == resp.AccessKeyId
        sk == resp.SecretAccessKey
        tok == resp.SessionToken
        exp == Iso8601ToUnixTime(resp.Expiration)
        c2 == IF ak # "" /\ sk # "" /\ exp.ok
              THEN [c EXCEPT !.gosGlobalAccessKeyId = ak,
                             !.gosGlobalSecretAccessKey = sk,
                             !.gosGlobalSessionToken = tok,
                             !.gnGlobalExpiration = exp.t]
              ELSE c
    IN [c |-> c2, ret |-> ak # "" /\ sk # "", sk |-> sk, ak |-> ak, tok |-> tok]

\* VSIS3HandleHelper::GetConfigurationFromEC2()
GetConfigurationFromEC2(c, t, e, bForceRefresh, sk, ak, tok) ==
    LET fn == "GetConfigurationFromEC2"
        valid == CredentialsStillValid(c, t)
        osEC2DefaultURL == "http://169.254.169.254"
        osEC2RootURL == VSIGetPathSpecificOption(e, "CPL_AWS_EC2_API_ROOT_URL", osEC2DefaultURL)
        osECSRelativeURI ==
            VSIGetPathSpecificOption(e, "AWS_CONTAINER_CREDENTIALS_RELATIVE_URI", "")
        finish(c1, before, what) ==
            { LET r == EC2AfterFetch(c1, resp)
                  fetches == Append(before, what)
              IN Outcome(r.c, r.ret, r.sk, r.ak, r.tok, fetches,
                         <<CallEntry(fn, bForceRefresh, c, t, Len(fetches), r.ret, r.ak)>>)
              : resp \in Responses("EC2", e.imds) }
    IN IF ~bForceRefresh /\ valid
       THEN {Outcome(c, TRUE, c.gosGlobalSecretAccessKey, c.gosGlobalAccessKeyId,
                     c.gosGlobalSessionToken, <<>>,
                     <<CallEntry(fn, bForceRefresh, c, t, 0, TRUE,
                                 c.gosGlobalAccessKeyId)>>)}
       ELSE IF osEC2RootURL = osEC2DefaultURL /\ osECSRelativeURI # ""
       THEN finish(c, <<>>, "ecs:credentials")
       ELSE IF ~IsMachinePotentiallyEC2Instance(e)
       THEN {Outcome(c, FALSE, sk, ak, tok, <<>>,
                     <<CallEntry(fn, bForceRefresh, c, t, 0, FALSE, ak)>>)}
       ELSE UNION {
              \* the IMDSv2 token request; after a timeout /latest/meta-data is probed
              LET tokenFetches == IF tokenResp = "timeout" THEN <<"imds:token", "imds:probe">>
                                  ELSE <<"imds:token">>
              IN IF c.gosIAMRole # ""
                 THEN finish(c, tokenFetches, "imds:credentials")
                 ELSE UNION {
                        LET c1 == [c EXCEPT !.gosIAMRole = role]
                            fetches == Append(tokenFetches, "imds:role")
                        IN IF role = ""
                           THEN {Outcome(c1, FALSE, sk, ak, tok, fetches,
                                         <<CallEntry(fn, bForceRefresh, c, t,
                                                     Len(fetches), FALSE, ak)>>)}
                           ELSE finish(c1, fetches, "imds:credentials")
                        : role \in e.imdsRoles }
              : tokenResp \in e.imdsToken }

\* GetTemporaryCredentialsForRole(): the STS AssumeRole request, signed with the
\* source credentials.  The out-parameters are written only when the response
\* holds a Credentials element.
GetTemporaryCredentialsForRole(resp, osTempSecretAccessKey, osTempAccessKeyId, osTempSessionToken) ==
    IF resp.found
    THEN [bRet |-> TRUE, osTempSecretAccessKey |-> resp.SecretAccessKey,
          osTempAccessKeyId |-> resp.AccessKeyId, osTempSessionToken |-> resp.SessionToken,
          osExpiration |-> resp.Expiration]
    ELSE [bRet |-> FALSE, osTempSecretAccessKey |-> osTempSecretAccessKey,
          osTempAccessKeyId |-> osTempAccessKeyId, osTempSessionToken |-> osTempSessionToken,
          osExpiration |-> <<>>]

\* A call made with an empty osPathForOption sees no path-specific option.
NoPathOptions(e) == [e EXCEPT !.pathOptions = <<>>]

\* An end of GetOrRefreshTemporaryCredentialsForRole that takes the role of the
\* config file when the cache holds none.
AssumeCachedRole_ReadsConfiguredRole(c, resp) ==
    LET c1 == [c EXCEPT !.gosGlobalSecretAccessKey = "",
                        !.gosGlobalAccessKeyId = "",
                        !.gosGlobalSessionToken = "",
                        !.gosRoleArn = IF @ = "" THEN "arn:role" ELSE @]
        r == GetTemporaryCredentialsForRole(resp, "", "", "")
        exp == Iso8601ToUnixTime(r.osExpiration)
    IN [bRet |-> r.bRet,
        c |-> [c1 EXCEPT !.gosGlobalSecretAccessKey = r.osTempSecretAccessKey,
                         !.gosGlobalAccessKeyId = r.osTempAccessKeyId,
                         !.gosGlobalSessionToken = r.osTempSessionToken,
                         !.gnGlobalExpiration = IF r.bRet /\ exp.ok THEN exp.t ELSE @]]

\* The end of GetOrRefreshTemporaryCredentialsForRole: the cached credentials are
\* cleared, AssumeRole is called with the cached role and source credentials and
\* writes the cached credentials directly.
AssumeCachedRole(c, resp) ==
    LET c1 == [c EXCEPT !.gosGlobalSecretAccessKey = "",
                        !.gosGlobalAccessKeyId = "",
                        !.gosGlobalSessionToken = ""]
        r == GetTemporaryCredentialsForRole(resp, c1.gosGlobalSecretAccessKey,
                                            c1.gosGlobalAccessKeyId, c1.gosGlobalSessionToken)
        exp == Iso8601ToUnixTime(r.osExpiration)
    IN [bRet |-> r.bRet,
        c |-> [c1 EXCEPT !.gosGlobalSecretAccessKey = r.osTempSecretAccessKey,
                         !.gosGlobalAccessKeyId = r.osTempAccessKeyId,
                         !.gosGlobalSessionToken = r.osTempSessionToken,
                         !.gnGlobalExpiration = IF r.bRet /\ exp.ok THEN exp.t ELSE @]]

\* VSIS3HandleHelper::GetOrRefreshTemporaryCredentialsForRole()
\* Its outcomes hold osRegion too, the fourth in/out string.
GetOrRefreshTemporaryCredentialsForRole(c, t, e, bForceRefresh, sk, ak, tok, osRegion) ==
    LET fn == "GetOrRefreshTemporaryCredentialsForRole"
        valid == CredentialsStillValid(c, t)
        out(c1, ret, sk1, ak1, tok1, region, fetches, calls) ==
            [c |-> c1, ret |-> ret, osSecretAccessKey |-> sk1, osAccessKeyId |-> ak1,
             osSessionToken |-> tok1, osRegion |-> region, fetches |-> fetches,
             calls |-> Append(calls, CallEntry(fn, bForceRefresh, c, t,
                                               Len(fetches), ret, ak1))]
        \* from the clearing of the cached credentials on
        assume(c1, sk1, ak1, tok1, fetches, calls) ==
            { LET r == AssumeCachedRole(c1, resp)
                  fetches2 == Append(fetches, "sts:AssumeRole")
              IN IF r.bRet
                 THEN out(r.c, TRUE, r.c.gosGlobalSecretAccessKey, r.c.gosGlobalAccessKeyId,
                          r.c.gosGlobalSessionToken, r.c.gosRegion, fetches2, calls)
                 ELSE out(r.c, FALSE, sk1, ak1, tok1, osRegion, fetches2, calls)
              : resp \in Responses("STS", e.stsAssumeRole) }
    IN IF ~bForceRefresh /\ valid
       THEN {[c |-> c, ret |-> TRUE, osSecretAccessKey |-> c.gosGlobalSecretAccessKey,
              osAccessKeyId |-> c.gosGlobalAccessKeyId,
              osSessionToken |-> c.gosGlobalSessionToken, osRegion |-> c.gosRegion,
              fetches |-> <<>>,
              calls |-> <<CallEntry(fn, bForceRefresh, c, t, 0, TRUE,
                                    c.gosGlobalAccessKeyId)>>]}
       ELSE IF c.gosRoleArnWebIdentity # ""
       THEN UNION {
              IF w.ret
              THEN assume([w.c EXCEPT !.gosSourceProfileSecretAccessKey = w.osSecretAccessKey,
                                      !.gosSourceProfileAccessKeyId = w.osAccessKeyId,
                                      !.gosSourceProfileSessionToken = w.osSessionToken],
                          w.osSecretAccessKey, w.osAccessKeyId, w.osSessionToken,
                          w.fetches, w.calls)
              ELSE {out(w.c, FALSE, w.osSecretAccessKey, w.osAccessKeyId, w.osSessionToken,
                        osRegion, w.fetches, w.calls)}
              : w \in GetConfigurationFromAssumeRoleWithWebIdentity(
                          c, t, NoPathOptions(e), bForceRefresh, c.gosRoleArnWebIdentity,
                          c.gosWebIdentityTokenFile, sk, ak, tok) }
       ELSE assume(c, sk, ak, tok, <<>>, <<>>)

-----------------------------------------------------------------------------
(* GetConfiguration: the provider chain *)

REGULAR == "REGULAR"
EC2 == "EC2"
WEB_IDENTITY == "WEB_IDENTITY"
ASSUMED_ROLE == "ASSUMED_ROLE"

\* The sources of GetConfiguration, in the order of its code.
SRC_NO_SIGN_REQUEST == "AWS_NO_SIGN_REQUEST"
SRC_ACCESS_KEY == "AWS_SECRET_ACCESS_KEY"
SRC_CACHED_ROLE == "cached assumed role"
SRC_CONFIG_FILES == "config files"
SRC_WEB_IDENTITY == "web identity"
SRC_EC2 == "IMDS/ECS"

VSIE_None == "none"
VSIE_AWSInvalidCredentials == "VSIE_AWSInvalidCredentials"

\* The running state of one GetConfiguration call: its in/out strings, the sources
\* consulted so far, the fetches made and the provider calls returned so far.
\* st.c is the cache.
Proceed(st, src) == [st EXCEPT !.consulted = Append(@, src)]

After(st, o) ==
    [st EXCEPT !.c = o.c,
               !.osSecretAccessKey = o.osSecretAccessKey,
               !.osAccessKeyId = o.osAccessKeyId,
               !.osSessionToken = o.osSessionToken,
               !.fetches = @ \o o.fetches,
               !.calls = @ \o o.calls]

Return(st, ret, source, err) ==
    [c |-> st.c, ret |-> ret, osSecretAccessKey |-> st.osSecretAccessKey,
     osAccessKeyId |-> st.osAccessKeyId, osSessionToken |-> st.osSessionToken,
     osRegion |-> st.osRegion, eCredentialsSource |-> source, error |-> err,
     consulted |-> st.consulted, fetches |-> st.fetches, calls |-> st.calls]

\* "Last method: use IAM role security credentials on EC2 instances"
FromEC2(st0, t, e) ==
    LET st == Proceed(st0, SRC_EC2)
    IN { IF o.ret THEN Return(After(st, o), TRUE, EC2, VSIE_None)
         ELSE Return(After(st, o), FALSE, REGULAR, VSIE_AWSInvalidCredentials)
         : o \in GetConfigurationFromEC2(st.c, t, e, FALSE, st.osSecretAccessKey,
                                         st.osAccessKeyId, st.osSessionToken) }

\* "WebIdentity method: use Web Identity Token", then the last method
FromWebIdentity(st0, t, e) ==
    IF CPLTestBool(CPLGetConfigOption(e, "CPL_AWS_WEB_IDENTITY_ENABLE", "YES"))
    THEN LET st == Proceed(st0, SRC_WEB_IDENTITY)
         IN UNION { IF o.ret THEN {Return(After(st, o), TRUE, WEB_IDENTITY, VSIE_None)}
                    ELSE FromEC2(After(st, o), t, e)
                    : o \in GetConfigurationFromAssumeRoleWithWebIdentity(
                                st.c, t, e, FALSE, "", "", st.osSecretAccessKey,
                                st.osAccessKeyId, st.osSessionToken) }
    ELSE FromEC2(st0, t, e)

\* "Store global variables to be able to reuse the temporary credentials"
StoreAssumedRole(c, r, p, sk, ak, tok, osRegion) ==
    LET exp == Iso8601ToUnixTime(r.osExpiration)
    IN [c EXCEPT !.gnGlobalExpiration = IF exp.ok THEN exp.t ELSE @,
                 !.gosRoleArn = p.osRoleArn,
                 !.gosExternalId = p.osExternalId,
                 !.gosMFASerial = p.osMFASerial,
                 !.gosRoleSessionName = p.osRoleSessionName,
                 !.gosSourceProfileSecretAccessKey = sk,
                 !.gosSourceProfileAccessKeyId = ak,
                 !.gosSourceProfileSessionToken = tok,
                 !.gosGlobalAccessKeyId = r.osTempAccessKeyId,
                 !.gosGlobalSecretAccessKey = r.osTempSecretAccessKey,
                 !.gosGlobalSessionToken = r.osTempSessionToken,
                 !.gosRegion = osRegion]

\* The STS AssumeRole call of GetConfiguration for the role_arn of the config file,
\* signed with the in/out credentials, and the storing of its result in the cache.
AssumeConfiguredRole(st, p, e) ==
    { LET r == GetTemporaryCredentialsForRole(resp, "", "", "")
          st1 == [st EXCEPT !.fetches = Append(@, "sts:AssumeRole")]
          c1 == StoreAssumedRole(st.c, r, p, st.osSecretAccessKey, st.osAccessKeyId,
                                 st.osSessionToken, st.osRegion)
      IN IF r.bRet
         THEN Return([st1 EXCEPT !.c = c1,
                                 !.osSecretAccessKey = r.osTempSecretAccessKey,
                                 !.osAccessKeyId = r.osTempAccessKeyId,
                                 !.osSessionToken = r.osTempSessionToken],
                     TRUE, ASSUMED_ROLE, VSIE_None)
         ELSE Return(st1, FALSE, REGULAR, VSIE_None)
      : resp \in Responses("STS", e.stsAssumeRole) }

\* "Get the credentials for the source profile, that will be used to sign the STS
\* AssumedRole request", unless a web identity role is recorded in the cache.
FromSourceProfile(st, p, e) ==
    IF st.c.gosRoleArnWebIdentity = ""
    THEN LET With(st1, rc) ==
                 IF ~rc.ret THEN {Return(st1, FALSE, REGULAR, VSIE_AWSInvalidCredentials)}
                 ELSE AssumeConfiguredRole(st1, p, e)
             Read(rc) ==
                 With([st EXCEPT !.osSecretAccessKey = rc.osSecretAccessKey,
                                 !.osAccessKeyId = rc.osAccessKeyId,
                                 !.osSessionToken = rc.osSessionToken], rc)
         IN Read(ReadAWSCredentials(e, p.osSourceProfile, p.osCredentials))
    ELSE AssumeConfiguredRole(st, p, e)

\* The branch of GetConfiguration for a profile with a role_arn and no secret key:
\* "Check if the default profile is pointing to another profile that has a role_arn
\* and web_identity_token_file settings", then assume the role.
FromConfiguredRole(st, p, t, e) ==
    IF p.osSourceProfile # ""
    THEN LET Recorded(st1, w, sp) ==
                 IF w.ret
                 THEN [st1 EXCEPT !.c.gosRoleArnWebIdentity = sp.p.osRoleArn,
                                  !.c.gosWebIdentityTokenFile = sp.p.osWebIdentityTokenFile]
                 ELSE st1
             Entries(sp) ==
                 IF sp.ret
                 THEN { Recorded(After(st, w), w, sp)
                        : w \in GetConfigurationFromAssumeRoleWithWebIdentity(
                                    st.c, t, e, FALSE, sp.p.osRoleArn,
                                    sp.p.osWebIdentityTokenFile, st.osSecretAccessKey,
                                    st.osAccessKeyId, st.osSessionToken) }
                 ELSE {st}
         IN UNION { FromSourceProfile(st1, p, e)
                    : st1 \in Entries(GetConfigurationFromAWSConfigFiles(
                                  e, <<p.osSourceProfile>>,
                                  [NoFileParams EXCEPT !.osWebIdentityTokenFile =
                                                           p.osWebIdentityTokenFile])) }
    ELSE FromSourceProfile(st, p, e)

\* "Next try reading from ~/.aws/credentials and ~/.aws/config"
FromConfigFiles(st0, t, e) ==
    LET st == Proceed(st0, SRC_CONFIG_FILES)
        With(st1, f) ==
            IF f.ret
            THEN IF f.p.osSecretAccessKey = "" /\ f.p.osRoleArn # ""
                 THEN FromConfiguredRole(st1, f.p, t, e)
                 ELSE {Return(st1, TRUE, REGULAR, VSIE_None)}
            ELSE FromWebIdentity(st1, t, e)
        Read(f) ==
            With([st EXCEPT !.osSecretAccessKey = f.p.osSecretAccessKey,
                            !.osAccessKeyId = f.p.osAccessKeyId,
                            !.osSessionToken = f.p.osSessionToken,
                            !.osRegion = f.p.osRegion], f)
    IN Read(GetConfigurationFromAWSConfigFiles(
                e, <<>>,
                [NoFileParams EXCEPT !.osSecretAccessKey = st.osSecretAccessKey,
                                     !.osAccessKeyId = st.osAccessKeyId,
                                     !.osSessionToken = st.osSessionToken,
                                     !.osRegion = st.osRegion]))

FromCachedRole_StopsOnFailure(st0, t, e) ==
    LET st == Proceed(st0, SRC_CACHED_ROLE)
    IN IF st.c.gosRoleArn # ""
       THEN { IF o.ret
              THEN Return([After(st, o) EXCEPT !.osRegion = o.osRegion],
                          TRUE, ASSUMED_ROLE, VSIE_None)
              ELSE Return(After(st, o), FALSE, REGULAR, VSIE_AWSInvalidCredentials)
              : o \in GetOrRefreshTemporaryCredentialsForRole(
                          st.c, t, e, FALSE, st.osSecretAccessKey, st.osAccessKeyId,
                          st.osSessionToken, st.osRegion) }
       ELSE FromConfigFiles(st, t, e)

\* "Next try to see if we have a current assumed role"
FromCachedRole(st0, t, e) ==
    LET st == Proceed(st0, SRC_CACHED_ROLE)
    IN IF st.c.gosRoleArn # ""
       THEN UNION { IF o.ret
                    THEN {Return([After(st, o) EXCEPT !.osRegion = o.osRegion],
                                 TRUE, ASSUMED_ROLE, VSIE_None)}
                    ELSE FromConfigFiles(After(st, o), t, e)
                    : o \in GetOrRefreshTemporaryCredentialsForRole(
                                st.c, t, e, FALSE, st.osSecretAccessKey, st.osAccessKeyId,
                                st.osSessionToken, st.osRegion) }
       ELSE FromConfigFiles(st, t, e)

\* The AWS_SECRET_ACCESS_KEY / AWS_ACCESS_KEY_ID / AWS_SESSION_TOKEN options
FromAccessKey(st0, t, e, papszOptions) ==
    LET st == Proceed(st0, SRC_ACCESS_KEY)
        sk == CSLFetchNameValueDef(papszOptions, "AWS_SECRET_ACCESS_KEY",
                                   VSIGetPathSpecificOption(e, "AWS_SECRET_ACCESS_KEY", ""))
        ak == CSLFetchNameValueDef(papszOptions, "AWS_ACCESS_KEY_ID",
                                   VSIGetPathSpecificOption(e, "AWS_ACCESS_KEY_ID", ""))
        tok == CSLFetchNameValueDef(papszOptions, "AWS_SESSION_TOKEN",
                                    VSIGetPathSpecificOption(e, "AWS_SESSION_TOKEN", ""))
        st1 == [st EXCEPT !.osSecretAccessKey = sk]
    IN IF sk # ""
       THEN IF ak = ""
            THEN {Return([st1 EXCEPT !.osAccessKeyId = ak],
                         FALSE, REGULAR, VSIE_AWSInvalidCredentials)}
            ELSE {Return([st1 EXCEPT !.osAccessKeyId = ak, !.osSessionToken = tok],
                         TRUE, REGULAR, VSIE_None)}
       ELSE FromCachedRole(st1, t, e)

\* VSIS3HandleHelper::GetConfiguration(), called with empty credential strings:
\* the set of its possible results.
GetConfiguration(c, t, e, papszOptions) ==
    LET st == [c |-> c, osSecretAccessKey |-> "", osAccessKeyId |-> "",
               osSessionToken |-> "",
               osRegion |-> CSLFetchNameValueDef(
                                papszOptions, "AWS_REGION",
                                VSIGetPathSpecificOption(e, "AWS_REGION", "us-east-1")),
               consulted |-> <<SRC_NO_SIGN_REQUEST>>, fetches |-> <<>>, calls |-> <<>>]
    IN IF CPLTestBool(VSIGetPathSpecificOption(e, "AWS_NO_SIGN_REQUEST", "NO"))
       THEN {Return(st, TRUE, REGULAR, VSIE_None)}
       ELSE FromAccessKey(st, t, e, papszOptions)

-----------------------------------------------------------------------------
(* URL encoding and the SigV4 signer *)

\* The printable ASCII characters in code order: 32-33, 35-40, 41-91, 93-95 and
\* 97-126 (the double quote, the backslash and the grave accent are left out).
Ascii32 == " !"
Ascii35 == "#$%&'("
Ascii41 == ")*+,-./0123456789:;<=>?@ABCDEFGHIJKLMNOPQRSTUVWXYZ["
Ascii93 == "]^_"
Ascii97 == "abcdefghijklmnopqrstuvwxyz{|}~"

CharsOf(t) == { CharAt(t, i) : i \in 1..Len(t) }

\* The byte value of each character, as a table.
CharCodes ==
    [ch \in UNION { CharsOf(t) : t \in {Ascii32, Ascii35, Ascii41, Ascii93, Ascii97} } |->
        IF FindChar(Ascii32, ch) # 0 THEN FindChar(Ascii32, ch) + 31
        ELSE IF FindChar(Ascii35, ch) # 0 THEN FindChar(Ascii35, ch) + 34
        ELSE IF FindChar(Ascii41, ch) # 0 THEN FindChar(Ascii41, ch) + 40
        ELSE IF FindChar(Ascii93, ch) # 0 THEN FindChar(Ascii93, ch) + 92
        ELSE FindChar(Ascii97, ch) + 96]

\* The byte value of a character (line feed and carriage return apart from the table).
CharCode(ch) == IF ch = "\n" THEN 10 ELSE IF ch = "\r" THEN 13 ELSE CharCodes[ch]

HexDigitsUpper == "0123456789ABCDEF"

PercentEncode_LowerHex(ch) ==
    "%" \o CharAt("0123456789abcdef", (CharCode(ch) \div 16) + 1)
        \o CharAt("0123456789abcdef", (CharCode(ch) % 16) + 1)

\* CPLSPrintf("%%%02X", ch)
PercentEncode(ch) ==
    "%" \o CharAt(HexDigitsUpper, (CharCode(ch) \div 16) + 1)
        \o CharAt(HexDigitsUpper, (CharCode(ch) % 16) + 1)

UnreservedChars ==
    CharsOf(UpperAlpha) \cup CharsOf(LowerAlpha) \cup CharsOf(DigitChars)
    \cup {"_", "-", "~", "."}

IsUnreserved(ch) == ch \in UnreservedChars

\* The loop of CPLAWSURLEncode is unrolled by halves: the encoding of a text is
\* the encodings of its bytes, in order.
RECURSIVE CPLAWSURLEncode(_, _)
CPLAWSURLEncode(osURL, bEncodeSlash) ==
    IF Len(osURL) = 0 THEN ""
    ELSE IF Len(osURL) = 1
    THEN LET ch == CharAt(osURL, 1)
         IN IF IsUnreserved(ch) THEN ch
            ELSE IF ch = "/" THEN (IF bEncodeSlash THEN "%2F" ELSE ch)
            ELSE PercentEncode(ch)
    ELSE CPLAWSURLEncode(SubSeq(osURL, 1, Len(osURL) \div 2), bEncodeSlash)
         \o CPLAWSURLEncode(SubSeq(osURL, (Len(osURL) \div 2) + 1, Len(osURL)), bEncodeSlash)

\* operator< of std::string: byte-wise lexicographic order.
RECURSIVE StrLess(_, _)
StrLess(a, b) ==
    IF b = "" THEN FALSE
    ELSE IF a = "" THEN TRUE
    ELSE IF CharAt(a, 1) = CharAt(b, 1)
         THEN StrLess(SubSeq(a, 2, Len(a)), SubSeq(b, 2, Len(b)))
    ELSE CharCode(CharAt(a, 1)) < CharCode(CharAt(b, 1))

\* The keys of a std::map in iteration order.
RECURSIVE SortedKeys(_)
SortedKeys(S) ==
    IF S = {} THEN <<>>
    ELSE LET m == CHOOSE x \in S : \A y \in S \ {x} : StrLess(x, y)
         IN <<m>> \o SortedKeys(S \ {m})

\* map[key] = value
MapSet(m, key, value) == [k \in DOMAIN m \cup {key} |-> IF k = key THEN value ELSE m[k]]

\* The loop of BuildCanonicalizedHeaders over the existing headers.
RECURSIVE FoldExistingHeaders(_, _, _)
FoldExistingHeaders(m, psExistingHeaders, pszHeaderPrefix) ==
    IF psExistingHeaders = <<>> THEN m
    ELSE LET data == Head(psExistingHeaders)
             col == FindChar(data, ":")
             m2 == IF /\ \/ STARTS_WITH_CI(data, pszHeaderPrefix)
                         \/ STARTS_WITH_CI(data, "Content-MD5")
                      /\ col # 0
                   THEN MapSet(m, ToLower(SubSeq(data, 1, col - 1)),
                               Trim(SubSeq(data, col + 1, Len(data))))
                   ELSE m
         IN FoldExistingHeaders(m2, Tail(psExistingHeaders), pszHeaderPrefix)

RECURSIVE JoinHeaderLines(_, _)
JoinHeaderLines(m, keys) ==
    IF keys = <<>> THEN ""
    ELSE Head(keys) \o ":" \o m[Head(keys)] \o "\n" \o JoinHeaderLines(m, Tail(keys))

RECURSIVE JoinWith_Comma(_, _)
JoinWith_Comma(keys, sep) ==
    IF keys = <<>> THEN ""
    ELSE IF Len(keys) = 1 THEN Head(keys)
    ELSE Head(keys) \o "," \o JoinWith_Comma(Tail(keys), sep)

RECURSIVE JoinWith(_, _)
JoinWith(keys, sep) ==
    IF keys = <<>> THEN ""
    ELSE IF Len(keys) = 1 THEN Head(keys)
    ELSE Head(keys) \o sep \o JoinWith(Tail(keys), sep)

\* IVSIS3LikeHandleHelper::BuildCanonicalizedHeaders(): the map as left by the call
\* (it is an in/out parameter) and the text returned.
BuildCanonicalizedHeaders(oSortedMapHeaders, psExistingHeaders, pszHeaderPrefix) ==
    LET m == FoldExistingHeaders(oSortedMapHeaders, psExistingHeaders, pszHeaderPrefix)
    IN [map |-> m, text |-> JoinHeaderLines(m, SortedKeys(DOMAIN m))]

\* CPLGetAWS_SIGN4_Signature(): the signature and the signed headers list, with the
\* canonical request and the string to sign it computed them from.
CPLGetAWS_SIGN4_Signature(osSecretAccessKey, osAccessToken, osRegion, osRequestPayer, osService, osVerb, psExistingHeaders, osHost, osCanonicalURI, osCanonicalQueryString, osXAMZContentSHA256, bAddHeaderAMZContentSHA256, osTimestamp) ==
    LET m0 == [k \in {"host"} |-> osHost]
        m1 == IF osXAMZContentSHA256 # "UNSIGNED-PAYLOAD" /\ bAddHeaderAMZContentSHA256
              THEN MapSet(MapSet(m0, "x-amz-content-sha256", osXAMZContentSHA256),
                          "x-amz-date", osTimestamp)
              ELSE m0
        m2 == IF osRequestPayer # "" THEN MapSet(m1, "x-amz-request-payer", osRequestPayer)
              ELSE m1
        m3 == IF osAccessToken # "" THEN MapSet(m2, "x-amz-security-token", osAccessToken)
              ELSE m2
        canon == BuildCanonicalizedHeaders(m3, psExistingHeaders, "x-amz-")
        osSignedHeaders == JoinWith(SortedKeys(DOMAIN canon.map), ";")
        osCanonicalRequest ==
            osVerb \o "\n" \o osCanonicalURI \o "\n" \o osCanonicalQueryString \o "\n"
            \o canon.text \o "\n" \o osSignedHeaders \o "\n" \o osXAMZContentSHA256
        osYYMMDD == SubSeq(osTimestamp, 1, 8)
        osScope == osYYMMDD \o "/" \o osRegion \o "/" \o osService \o "/aws4_request"
        osStringToSign ==
            "AWS4-HMAC-SHA256\n" \o osTimestamp \o "\n" \o osScope \o "\n"
            \o CPLGetLowerCaseHexSHA256(osCanonicalRequest)
        abySigningKey ==
            CPL_HMAC_SHA256(
                CPL_HMAC_SHA256(
                    CPL_HMAC_SHA256(
                        CPL_HMAC_SHA256("AWS4" \o osSecretAccessKey, osYYMMDD),
                        osRegion),
                    osService),
                "aws4_request")
    IN [osSignature |-> CPL_HMAC_SHA256(abySigningKey, osStringToSign),
        osSignedHeaders |-> osSignedHeaders,
        osCanonicalRequest |-> osCanonicalRequest,
        osStringToSign |-> osStringToSign,
        osTimestamp |-> osTimestamp,
        osSecretAccessKey |-> osSecretAccessKey,
        osAccessToken |-> osAccessToken]

\* CPLGetAWS_SIGN4_Authorization(): the value of the Authorization header, with
\* what the signer computed it from.
CPLGetAWS_SIGN4_Authorization(osSecretAccessKey, osAccessKeyId, osAccessToken, osRegion, osRequestPayer, osService, osVerb, psExistingHeaders, osHost, osCanonicalURI, osCanonicalQueryString, osXAMZContentSHA256, bAddHeaderAMZContentSHA256, osTimestamp) ==
    LET osYYMMDD == SubSeq(osTimestamp, 1, 8)
        Authorization(sig) ==
            [osAuthorization |->
                 "AWS4-HMAC-SHA256 Credential=" \o osAccessKeyId \o "/" \o osYYMMDD \o "/"
                 \o osRegion \o "/" \o osService \o "/" \o "aws4_request" \o ","
                 \o "SignedHeaders=" \o sig.osSignedHeaders \o "," \o "Signature="
                 \o sig.osSignature,
             osAccessKeyId |-> osAccessKeyId,
             sig |-> sig]
    IN Authorization(CPLGetAWS_SIGN4_Signature(
                         osSecretAccessKey, osAccessToken, osRegion, osRequestPayer,
                         osService, osVerb, psExistingHeaders, osHost, osCanonicalURI,
                         osCanonicalQueryString, osXAMZContentSHA256,
                         bAddHeaderAMZContentSHA256, osTimestamp))

-----------------------------------------------------------------------------
(* The S3 handle helper *)

NoHandle ==
    [exists |-> FALSE, m_osURL |-> "", m_osSecretAccessKey |-> "", m_osAccessKeyId |-> "",
     m_osSessionToken |-> "", m_osEndpoint |-> "", m_osRegion |-> "",
     m_osRequestPayer |-> "", m_osBucket |-> "", m_osObjectKey |-> "",
     m_bUseHTTPS |-> FALSE, m_bUseVirtualHosting |-> FALSE,
     m_eCredentialsSource |-> REGULAR, m_oMapQueryParameters |-> <<>>]

BuildURL_RawKey(osEndpoint, osBucket, osObjectKey, bUseHTTPS, bUseVirtualHosting) ==
    LET pszProtocol == IF bUseHTTPS THEN "https" ELSE "http"
    IN IF osBucket = "" THEN pszProtocol \o "://" \o osEndpoint
       ELSE IF bUseVirtualHosting
       THEN pszProtocol \o "://" \o osBucket \o "." \o osEndpoint \o "/" \o osObjectKey
       ELSE pszProtocol \o "://" \o osEndpoint \o "/" \o osBucket \o "/" \o osObjectKey

\* VSIS3HandleHelper::BuildURL()
BuildURL(osEndpoint, osBucket, osObjectKey, bUseHTTPS, bUseVirtualHosting) ==
    LET pszProtocol == IF bUseHTTPS THEN "https" ELSE "http"
    IN IF osBucket = "" THEN pszProtocol \o "://" \o osEndpoint
       ELSE IF bUseVirtualHosting
       THEN pszProtocol \o "://" \o osBucket \o "." \o osEndpoint \o "/"
            \o CPLAWSURLEncode(osObjectKey, FALSE)
       ELSE pszProtocol \o "://" \o osEndpoint \o "/" \o osBucket \o "/"
            \o CPLAWSURLEncode(osObjectKey, FALSE)

RECURSIVE JoinQuery(_, _, _, _)
JoinQuery(m, keys, bAddEmptyValueAfterEqual, first) ==
    IF keys = <<>> THEN ""
    ELSE (IF first THEN "?" ELSE "&") \o Head(keys)
         \o (IF m[Head(keys)] # "" \/ bAddEmptyValueAfterEqual
             THEN "=" \o CPLAWSURLEncode(m[Head(keys)], TRUE) ELSE "")
         \o JoinQuery(m, Tail(keys), bAddEmptyValueAfterEqual, FALSE)

\* IVSIS3LikeHandleHelper::GetQueryString()
GetQueryString(hd, bAddEmptyValueAfterEqual) ==
    JoinQuery(hd.m_oMapQueryParameters, SortedKeys(DOMAIN hd.m_oMapQueryParameters),
              bAddEmptyValueAfterEqual, TRUE)

\* VSIS3HandleHelper::RebuildURL()
RebuildURL(hd) ==
    [hd EXCEPT !.m_osURL = BuildURL(hd.m_osEndpoint, hd.m_osBucket, hd.m_osObjectKey,
                                    hd.m_bUseHTTPS, hd.m_bUseVirtualHosting)
                           \o GetQueryString(hd, FALSE)]

SetEndpoint_KeepsURL(hd, osStr) == [hd EXCEPT !.m_osEndpoint = osStr]

\* VSIS3HandleHelper::SetEndpoint()
SetEndpoint(hd, osStr) == RebuildURL([hd EXCEPT !.m_osEndpoint = osStr])

SetRegion_KeepsRegion(hd, osStr) == hd

\* VSIS3HandleHelper::SetRegion()
SetRegion(hd, osStr) == [hd EXCEPT !.m_osRegion = osStr]

\* IVSIS3LikeHandleHelper::GetBucketAndObjectKey()
GetBucketAndObjectKey(pszURI, bAllowNoObject) ==
    LET nPos == FindChar(pszURI, "/")
    IN IF pszURI = "" THEN [ok |-> FALSE, osBucket |-> "", osObjectKey |-> ""]
       ELSE IF nPos = 0
       THEN [ok |-> bAllowNoObject, osBucket |-> pszURI, osObjectKey |-> ""]
       ELSE [ok |-> TRUE, osBucket |-> SubSeq(pszURI, 1, nPos - 1),
             osObjectKey |-> SubSeq(pszURI, nPos + 1, Len(pszURI))]

\* The constructor VSIS3HandleHelper::VSIS3HandleHelper()
VSIS3HandleHelper(osSecretAccessKey, osAccessKeyId, osSessionToken, osEndpoint, osRegion, osRequestPayer, osBucket, osObjectKey, bUseHTTPS, bUseVirtualHosting, eCredentialsSource) ==
    [exists |-> TRUE,
     m_osURL |-> BuildURL(osEndpoint, osBucket, osObjectKey, bUseHTTPS, bUseVirtualHosting),
     m_osSecretAccessKey |-> osSecretAccessKey,
     m_osAccessKeyId |-> osAccessKeyId,
     m_osSessionToken |-> osSessionToken,
     m_osEndpoint |-> osEndpoint,
     m_osRegion |-> osRegion,
     m_osRequestPayer |-> osRequestPayer,
     m_osBucket |-> osBucket,
     m_osObjectKey |-> osObjectKey,
     m_bUseHTTPS |-> bUseHTTPS,
     m_bUseVirtualHosting |-> bUseVirtualHosting,
     m_eCredentialsSource |-> eCredentialsSource,
     m_oMapQueryParameters |-> <<>>]

HandleFromConfiguration_IgnoresDots(gc, e, pszURI, bAllowNoObject, papszOptions) ==
    LET osDefaultRegion ==
            CSLFetchNameValueDef(papszOptions, "AWS_DEFAULT_REGION",
                                 VSIGetPathSpecificOption(e, "AWS_DEFAULT_REGION", ""))
        osRegion == IF osDefaultRegion # "" THEN osDefaultRegion ELSE gc.osRegion
        osEndpoint == VSIGetPathSpecificOption(e, "AWS_S3_ENDPOINT", "s3.amazonaws.com")
        osRequestPayer == VSIGetPathSpecificOption(e, "AWS_REQUEST_PAYER", "")
        bk == GetBucketAndObjectKey(pszURI, bAllowNoObject)
        bUseHTTPS == CPLTestBool(VSIGetPathSpecificOption(e, "AWS_HTTPS", "YES"))
        bIsValidNameForVirtualHosting == TRUE
        bUseVirtualHosting ==
            CPLTestBool(CSLFetchNameValueDef(
                            papszOptions, "AWS_VIRTUAL_HOSTING",
                            VSIGetPathSpecificOption(
                                e, "AWS_VIRTUAL_HOSTING",
                                IF bIsValidNameForVirtualHosting THEN "TRUE" ELSE "FALSE")))
    IN IF pszURI # "" /\ ~bk.ok THEN NoHandle
       ELSE VSIS3HandleHelper(gc.osSecretAccessKey, gc.osAccessKeyId, gc.osSessionToken,
                              osEndpoint, osRegion, osRequestPayer, bk.osBucket,
                              bk.osObjectKey, bUseHTTPS, bUseVirtualHosting,
                              gc.eCredentialsSource)

\* The part of BuildFromURI that follows a successful GetConfiguration: the handle
\* built from its result gc, NoHandle when the URI is refused.
HandleFromConfiguration(gc, e, pszURI, bAllowNoObject, papszOptions) ==
    LET osDefaultRegion ==
            CSLFetchNameValueDef(papszOptions, "AWS_DEFAULT_REGION",
                                 VSIGetPathSpecificOption(e, "AWS_DEFAULT_REGION", ""))
        osRegion == IF osDefaultRegion # "" THEN osDefaultRegion ELSE gc.osRegion
        osEndpoint == VSIGetPathSpecificOption(e, "AWS_S3_ENDPOINT", "s3.amazonaws.com")
        osRequestPayer == VSIGetPathSpecificOption(e, "AWS_REQUEST_PAYER", "")
        bk == GetBucketAndObjectKey(pszURI, bAllowNoObject)
        bUseHTTPS == CPLTestBool(VSIGetPathSpecificOption(e, "AWS_HTTPS", "YES"))
        bIsValidNameForVirtualHosting == FindChar(bk.osBucket, ".") = 0
        bUseVirtualHosting ==
            CPLTestBool(CSLFetchNameValueDef(
                            papszOptions, "AWS_VIRTUAL_HOSTING",
                            VSIGetPathSpecificOption(
                                e, "AWS_VIRTUAL_HOSTING",
                                IF bIsValidNameForVirtualHosting THEN "TRUE" ELSE "FALSE")))
    IN IF pszURI # "" /\ ~bk.ok THEN NoHandle
       ELSE VSIS3HandleHelper(gc.osSecretAccessKey, gc.osAccessKeyId, gc.osSessionToken,
                              osEndpoint, osRegion, osRequestPayer, bk.osBucket,
                              bk.osObjectKey, bUseHTTPS, bUseVirtualHosting,
                              gc.eCredentialsSource)

\* VSIS3HandleHelper::BuildFromURI(): for each possible result gc of GetConfiguration,
\* the handle returned (NoHandle for nullptr).
BuildFromURI(c, t, e, pszURI, bAllowNoObject, papszOptions) ==
    { [gc |-> gc,
       handle |-> IF gc.ret
                  THEN HandleFromConfiguration(gc, e, pszURI, bAllowNoObject, papszOptions)
                  ELSE NoHandle]
      : gc \in GetConfiguration(c, t, e, papszOptions) }

RefreshCredentials_AlsoRegular(hd, c, t, e, bForceRefresh) ==
    { [h |-> IF o.ret THEN [hd EXCEPT !.m_osSecretAccessKey = o.osSecretAccessKey,
                                      !.m_osAccessKeyId = o.osAccessKeyId,
                                      !.m_osSessionToken = o.osSessionToken]
             ELSE hd,
       c |-> o.c, fetches |-> o.fetches, calls |-> o.calls]
      : o \in GetConfigurationFromEC2(c, t, e, bForceRefresh, "", "", "") }

\* VSIS3HandleHelper::RefreshCredentials(): the handle and the cache after it.
RefreshCredentials(hd, c, t, e, bForceRefresh) ==
    LET update(o) ==
            [h |-> IF o.ret
                   THEN [hd EXCEPT !.m_osSecretAccessKey = o.osSecretAccessKey,
                                   !.m_osAccessKeyId = o.osAccessKeyId,
                                   !.m_osSessionToken = o.osSessionToken]
                   ELSE hd,
             c |-> o.c, fetches |-> o.fetches, calls |-> o.calls]
    IN IF hd.m_eCredentialsSource = EC2
       THEN { update(o) : o \in GetConfigurationFromEC2(c, t, e, bForceRefresh, "", "", "") }
       ELSE IF hd.m_eCredentialsSource = ASSUMED_ROLE
       THEN { update(o) : o \in GetOrRefreshTemporaryCredentialsForRole(
                                    c, t, e, bForceRefresh, "", "", "", "") }
       ELSE IF hd.m_eCredentialsSource = WEB_IDENTITY
       THEN { update(o) : o \in GetConfigurationFromAssumeRoleWithWebIdentity(
                                    c, t, e, bForceRefresh, "", "", "", "", "") }
       ELSE {[h |-> hd, c |-> c, fetches |-> <<>>, calls |-> <<>>]}

HeaderList_AuthorizationFirst(osXAMZDate, osXAMZContentSHA256, osSessionToken, osRequestPayer, osAuthorization) ==
    (IF osAuthorization # "" THEN <<"Authorization: " \o osAuthorization>> ELSE <<>>)
    \o <<"x-amz-date: " \o osXAMZDate,
         "x-amz-content-sha256: " \o osXAMZContentSHA256>>
    \o (IF osSessionToken # "" THEN <<"X-Amz-Security-Token: " \o osSessionToken>> ELSE <<>>)
    \o (IF osRequestPayer # "" THEN <<"x-amz-request-payer: " \o osRequestPayer>> ELSE <<>>)

\* The curl_slist GetCurlHeaders builds, in the order of its appends.
HeaderList(osXAMZDate, osXAMZContentSHA256, osSessionToken, osRequestPayer, osAuthorization) ==
    <<"x-amz-date: " \o osXAMZDate,
      "x-amz-content-sha256: " \o osXAMZContentSHA256>>
    \o (IF osSessionToken # "" THEN <<"X-Amz-Security-Token: " \o osSessionToken>> ELSE <<>>)
    \o (IF osRequestPayer # "" THEN <<"x-amz-request-payer: " \o osRequestPayer>> ELSE <<>>)
    \o (IF osAuthorization # "" THEN <<"Authorization: " \o osAuthorization>> ELSE <<>>)

\* The part of GetCurlHeaders after RefreshCredentials: the headers returned, and
\* in auth what the signer was given and computed (<<>> when it was not called).
SignedHeaders(hd, t, e, osVerb, psExistingHeaders, data) ==
    LET osXAMZDateOpt == VSIGetPathSpecificOption(e, "AWS_TIMESTAMP", "")
        osXAMZDate == IF osXAMZDateOpt = "" THEN CPLGetAWS_SIGN4_Timestamp(t)
                      ELSE osXAMZDateOpt
        osXAMZContentSHA256 == CPLGetLowerCaseHexSHA256(data)
        WithoutMark(qs) == IF qs # "" THEN SubSeq(qs, 2, Len(qs)) ELSE qs
        osCanonicalQueryString == WithoutMark(GetQueryString(hd, TRUE))
        osHost == IF hd.m_bUseVirtualHosting /\ hd.m_osBucket # ""
                  THEN hd.m_osBucket \o "." \o hd.m_osEndpoint ELSE hd.m_osEndpoint
        Headers(osAuthorization, auth) ==
            [headers |-> HeaderList(osXAMZDate, osXAMZContentSHA256, hd.m_osSessionToken,
                                    hd.m_osRequestPayer, osAuthorization),
             auth |-> auth]
        Signed(auth) == Headers(auth.osAuthorization, <<auth>>)
    IN IF hd.m_osSecretAccessKey = "" THEN Headers("", <<>>)
       ELSE Signed(CPLGetAWS_SIGN4_Authorization(
                hd.m_osSecretAccessKey, hd.m_osAccessKeyId, hd.m_osSessionToken,
                hd.m_osRegion, hd.m_osRequestPayer, "s3", osVerb, psExistingHeaders,
                osHost,
                CPLAWSURLEncode(IF hd.m_bUseVirtualHosting
                                THEN "/" \o hd.m_osObjectKey
                                ELSE "/" \o hd.m_osBucket \o "/" \o hd.m_osObjectKey,
                                FALSE),
                osCanonicalQueryString, osXAMZContentSHA256, TRUE, osXAMZDate))

GetCurlHeaders_ForcedRefresh(hd, c, t, e, osVerb, psExistingHeaders, data) ==
    { [h |-> r.h, c |-> r.c, fetches |-> r.fetches, calls |-> r.calls,
       out |-> SignedHeaders(r.h, t, e, osVerb, psExistingHeaders, data)]
      : r \in RefreshCredentials(hd, c, t, e, TRUE) }

GetCurlHeaders_SignsBeforeRefresh(hd, c, t, e, osVerb, psExistingHeaders, data) ==
    { [h |-> r.h, c |-> r.c, fetches |-> r.fetches, calls |-> r.calls,
       out |-> SignedHeaders(hd, t, e, osVerb, psExistingHeaders, data)]
      : r \in RefreshCredentials(hd, c, t, e, FALSE) }

\* VSIS3HandleHelper::GetCurlHeaders(): credentials are refreshed, then the request
\* is signed with the handle's credentials.
GetCurlHeaders(hd, c, t, e, osVerb, psExistingHeaders, data) ==
    { [h |-> r.h, c |-> r.c, fetches |-> r.fetches, calls |-> r.calls,
       out |-> SignedHeaders(r.h, t, e, osVerb, psExistingHeaders, data)]
      : r \in RefreshCredentials(hd, c, t, e, FALSE) }

-----------------------------------------------------------------------------
(* Presigned URLs *)

IsDigit(ch) == FindChar(DigitChars, ch) # 0

\* The digits, at most width of them, that s has from position pos on.
RECURSIVE CountDigits(_, _, _)
CountDigits(s, pos, width) ==
    IF width = 0 \/ pos > Len(s) \/ ~IsDigit(CharAt(s, pos)) THEN 0
    ELSE 1 + CountDigits(s, pos + 1, width - 1)

\* The value of a text of digits.
RECURSIVE DigitsValue(_)
DigitsValue(s) ==
    IF Len(s) = 0 THEN 0
    ELSE DigitsValue(SubSeq(s, 1, Len(s) - 1)) * 10 + FindChar(DigitChars, CharAt(s, Len(s))) - 1

\* CPLAtoGIntBig(): the value of the leading digits, 0 when there is none.
CPLAtoGIntBig(s) == DigitsValue(SubSeq(s, 1, CountDigits(s, 1, Len(s))))

\* sscanf(s, fmt, ...): the fields read before the first mismatch. A directive
\* [d |-> w] is %0wd, [c |-> ch] is the ordinary character ch.
RECURSIVE SScanf(_, _, _)
SScanf(s, pos, fmt) ==
    IF fmt = <<>> THEN <<>>
    ELSE IF "d" \in DOMAIN Head(fmt)
    THEN LET n == CountDigits(s, pos, Head(fmt).d)
         IN IF n = 0 THEN <<>>
            ELSE <<DigitsValue(SubSeq(s, pos, pos + n - 1))>> \o SScanf(s, pos + n, Tail(fmt))
    ELSE IF pos <= Len(s) /\ CharAt(s, pos) = Head(fmt).c THEN SScanf(s, pos + 1, Tail(fmt))
    ELSE <<>>

\* "%04d%02d%02dT%02d%02d%02dZ"
StartDateFormat ==
    <<[d |-> 4], [d |-> 2], [d |-> 2], [c |-> "T"], [d |-> 2], [d |-> 2], [d |-> 2], [c |-> "Z"]>>

\* CPLYMDHMSToUnixTime(), for the instants of January 1970; nHour, nMin and nSec
\* stay 0 when sscanf did not read them.
StartDateToUnixTime(fields) ==
    LET f == fields \o <<0, 0, 0>>
    IN (((f[3] - 1) * 24 + f[4]) * 60 + f[5]) * 60 + f[6]

\* The bytes of a string.
BytesOf(s) == [i \in 1..Len(s) |-> CharCode(SubSeq(s, i, i))]

\* VSIS3HandleHelper::~VSIS3HandleHelper(): the bytes the strings of the handle
\* hold when their storage is released, after the body of the destructor has run.
DestroyedHandle(hd) ==
    [m_osSecretAccessKey |-> [i \in 1..Len(hd.m_osSecretAccessKey) |-> 0],
     m_osAccessKeyId |-> BytesOf(hd.m_osAccessKeyId),
     m_osSessionToken |-> BytesOf(hd.m_osSessionToken)]

ResetQueryParameters_KeepsParameters(hd) == RebuildURL(hd)

\* IVSIS3LikeHandleHelper::ResetQueryParameters()
ResetQueryParameters(hd) == RebuildURL([hd EXCEPT !.m_oMapQueryParameters = <<>>])

AddQueryParameter_NoRebuild(hd, osKey, osValue) ==
    [hd EXCEPT !.m_oMapQueryParameters = MapSet(@, osKey, osValue)]

\* IVSIS3LikeHandleHelper::AddQueryParameter()
AddQueryParameter(hd, osKey, osValue) ==
    RebuildURL([hd EXCEPT !.m_oMapQueryParameters = MapSet(@, osKey, osValue)])

\* The part of GetSignedURL that follows the check of the credentials: the
\* query parameters are set, the request is signed and the signature is added.
SignURL(hd, osXAMZDate, osXAMZExpires, osVerb) ==
    LET osDate == SubSeq(osXAMZDate, 1, IF Len(osXAMZDate) < 8 THEN Len(osXAMZDate) ELSE 8)
        WithToken(h1) ==
            IF hd.m_osSessionToken # ""
            THEN AddQueryParameter(h1, "X-Amz-Security-Token", hd.m_osSessionToken)
            ELSE h1
        Parameters ==
            AddQueryParameter(
              WithToken(
                AddQueryParameter(
                  AddQueryParameter(
                    AddQueryParameter(
                      AddQueryParameter(ResetQueryParameters(hd),
                                        "X-Amz-Algorithm", "AWS4-HMAC-SHA256"),
                      "X-Amz-Credential",
                      hd.m_osAccessKeyId \o "/" \o osDate \o "/" \o hd.m_osRegion
                      \o "/s3/aws4_request"),
                    "X-Amz-Date", osXAMZDate),
                  "X-Amz-Expires", osXAMZExpires)),
              "X-Amz-SignedHeaders", "host")
        osHost == IF hd.m_bUseVirtualHosting /\ hd.m_osBucket # ""
                  THEN hd.m_osBucket \o "." \o hd.m_osEndpoint ELSE hd.m_osEndpoint
        Sign(h1, qs) ==
            CPLGetAWS_SIGN4_Signature(
                hd.m_osSecretAccessKey, "", hd.m_osRegion, hd.m_osRequestPayer, "s3",
                osVerb, <<>>, osHost,
                CPLAWSURLEncode(IF hd.m_bUseVirtualHosting
                                THEN "/" \o hd.m_osObjectKey
                                ELSE "/" \o hd.m_osBucket \o "/" \o hd.m_osObjectKey,
                                FALSE),
                SubSeq(qs, 2, Len(qs)), "UNSIGNED-PAYLOAD", FALSE, osXAMZDate)
        Returned(h2, sig) == [h |-> h2, ret |-> h2.m_osURL, signed |-> <<sig>>]
        Finish(h1, sig) ==
            Returned(AddQueryParameter(h1, "X-Amz-Signature", sig.osSignature), sig)
        Signed(h1) == Finish(h1, Sign(h1, GetQueryString(h1, TRUE)))
    IN Signed(Parameters)

GetSignedURL_StrictMargin(hd, c, t, e, papszOptions) ==
    LET osXAMZDateOpt == CSLFetchNameValueDef(papszOptions, "START_DATE",
                                              VSIGetPathSpecificOption(e, "AWS_TIMESTAMP", ""))
        osXAMZDate == IF osXAMZDateOpt = "" THEN CPLGetAWS_SIGN4_Timestamp(t)
                      ELSE osXAMZDateOpt
        osXAMZExpires == CSLFetchNameValueDef(papszOptions, "EXPIRATION_DELAY", "3600")
        osVerb == CSLFetchNameValueDef(papszOptions, "VERB", "GET")
        fields == SScanf(osXAMZDate, 1, StartDateFormat)
        nStartDate == StartDateToUnixTime(fields)
        Result(r, c1, fetches, calls) ==
            [h |-> r.h, c |-> c1, ret |-> r.ret, signed |-> r.signed, fetches |-> fetches,
             calls |-> calls]
        Refreshed(r) ==
            Result(SignURL(r.h, osXAMZDate, osXAMZExpires, osVerb), r.c, r.fetches, r.calls)
    IN IF hd.m_eCredentialsSource = REGULAR
       THEN {Result(SignURL(hd, osXAMZDate, osXAMZExpires, osVerb), c, <<>>, <<>>)}
       ELSE IF Len(fields) < 3
       THEN {[h |-> hd, c |-> c, ret |-> "", signed |-> <<>>, fetches |-> <<>>,
              calls |-> <<>>]}
       ELSE IF nStartDate + CPLAtoGIntBig(osXAMZExpires) > c.gnGlobalExpiration - Margin
       THEN { Refreshed(r) : r \in RefreshCredentials(hd, c, t, e, TRUE) }
       ELSE {Result(SignURL(hd, osXAMZDate, osXAMZExpires, osVerb), c, <<>>, <<>>)}

\* VSIS3HandleHelper::GetSignedURL(): the URL returned ("" on error), the handle
\* and the cache after the call, what was signed (<<>> when nothing was), and the
\* fetches and the calls of the forced refresh.
GetSignedURL(hd, c, t, e, papszOptions) ==
    LET osXAMZDateOpt == CSLFetchNameValueDef(papszOptions, "START_DATE",
                                              VSIGetPathSpecificOption(e, "AWS_TIMESTAMP", ""))
        osXAMZDate == IF osXAMZDateOpt = "" THEN CPLGetAWS_SIGN4_Timestamp(t)
                      ELSE osXAMZDateOpt
        osXAMZExpires == CSLFetchNameValueDef(papszOptions, "EXPIRATION_DELAY", "3600")
        osVerb == CSLFetchNameValueDef(papszOptions, "VERB", "GET")
        fields == SScanf(osXAMZDate, 1, StartDateFormat)
        nStartDate == StartDateToUnixTime(fields)
        Result(r, c1, fetches, calls) ==
            [h |-> r.h, c |-> c1, ret |-> r.ret, signed |-> r.signed, fetches |-> fetches,
             calls |-> calls]
        Refreshed(r) ==
            Result(SignURL(r.h, osXAMZDate, osXAMZExpires, osVerb), r.c, r.fetches, r.calls)
    IN IF hd.m_eCredentialsSource = REGULAR
       THEN {Result(SignURL(hd, osXAMZDate, osXAMZExpires, osVerb), c, <<>>, <<>>)}
       ELSE IF Len(fields) < 3
       THEN {[h |-> hd, c |-> c, ret |-> "", signed |-> <<>>, fetches |-> <<>>,
              calls |-> <<>>]}
       ELSE IF nStartDate + CPLAtoGIntBig(osXAMZExpires) >= c.gnGlobalExpiration - Margin
       THEN { Refreshed(r) : r \in RefreshCredentials(hd, c, t, e, TRUE) }
       ELSE {Result(SignURL(hd, osXAMZDate, osXAMZExpires, osVerb), c, <<>>, <<>>)}

-----------------------------------------------------------------------------
(* Recovery from an S3 error response *)

VSIE_AWSError == "VSIE_AWSError"
VSIE_AWSAccessDenied == "VSIE_AWSAccessDenied"
VSIE_AWSBucketNotFound == "VSIE_AWSBucketNotFound"
VSIE_AWSObjectNotFound == "VSIE_AWSObjectNotFound"
VSIE_AWSSignatureDoesNotMatch == "VSIE_AWSSignatureDoesNotMatch"

\* An error body is its leading text and the tree CPLParseXMLString makes of it:
\* <<>> when parsing fails, else <<elems>> with elems the children of <Error>.
\* CPLGetXMLValue(psTree, "=Error.X", nullptr) is <<>> for nullptr.
CPLGetXMLValue(tree, name) ==
    IF name \in DOMAIN tree[1] THEN <<tree[1][name]>> ELSE <<>>

\* strncmp(pszEndpoint, m_osBucket.c_str(), m_osBucket.size()) == 0 &&
\* pszEndpoint[m_osBucket.size()] == '.'
EndpointStartsWithBucket(pszEndpoint, osBucket) ==
    /\ Len(pszEndpoint) >= Len(osBucket)
    /\ SubSeq(pszEndpoint, 1, Len(osBucket)) = osBucket
    /\ CharAt(pszEndpoint, Len(osBucket) + 1) = "."

\* The region announced by the response headers: the text after
\* "x-amz-bucket-region: " up to the first carriage return; <<>> when absent.
BucketRegionOf(pszHeaders) ==
    IF pszHeaders = <<>> THEN <<>>
    ELSE LET hs == pszHeaders[1]
             i == FindStr(hs, "x-amz-bucket-region: ")
             rest == SubSeq(hs, i + Len("x-amz-bucket-region: "), Len(hs))
             nPos == FindChar(rest, "\r")
         IN IF i = 0 THEN <<>>
            ELSE IF nPos # 0 THEN <<SubSeq(rest, 1, nPos - 1)>> ELSE <<rest>>

\* What VSIError() records: the kind of the error and its formatted message.
VSIError(kind, message) == [kind |-> kind, message |-> message]

NoVSIError == VSIError(VSIE_None, "")

Restart_AlwaysUpdatesMap(hd, ret, bUpdateMap, err) ==
    [h |-> hd, ret |-> ret, bUpdateMap |-> TRUE, error |-> err.kind,
     message |-> err.message]

\* The results of one CanRestartOnError call: the handle after it, the value
\* returned, *pbUpdateMap and the error raised.
Restart(hd, ret, bUpdateMap, err) ==
    [h |-> hd, ret |-> ret, bUpdateMap |-> bUpdateMap, error |-> err.kind,
     message |-> err.message]

\* A body that is not XML
Invalid(hd, body, bSetError) ==
    Restart(hd, FALSE, TRUE,
            IF bSetError THEN VSIError(VSIE_AWSError, "Invalid AWS response: " \o body.text)
            ELSE NoVSIError)

Malformed_DropsQueryParameters(hd, body, bSetError) ==
    Restart(ResetQueryParameters(hd), FALSE, TRUE,
            IF bSetError
            THEN VSIError(VSIE_AWSError, "Malformed AWS XML response: " \o body.text)
            ELSE NoVSIError)

\* A body that does not parse, or lacks the element the code needs
Malformed(hd, body, bSetError) ==
    Restart(hd, FALSE, TRUE,
            IF bSetError
            THEN VSIError(VSIE_AWSError, "Malformed AWS XML response: " \o body.text)
            ELSE NoVSIError)

\* The PermanentRedirect / TemporaryRedirect branch of CanRestartOnError.
Redirect_FlipsDottedBucket(hd, pszCode, body, pszHeaders, bSetError) ==
    LET bIsTemporaryRedirect == EQUAL(pszCode, "TemporaryRedirect")
        pszEndpoint == CPLGetXMLValue(body.tree, "Endpoint")
        vh == [hd EXCEPT !.m_bUseVirtualHosting = TRUE]
    IN IF pszEndpoint = <<>>
          \/ (hd.m_bUseVirtualHosting
              /\ ~EndpointStartsWithBucket(pszEndpoint[1], hd.m_osBucket))
       THEN Malformed(hd, body, bSetError)
       ELSE IF ~hd.m_bUseVirtualHosting
               /\ EndpointStartsWithBucket(pszEndpoint[1], hd.m_osBucket)
       THEN Restart(SetEndpoint(vh, SubSeq(pszEndpoint[1], Len(hd.m_osBucket) + 2,
                                           Len(pszEndpoint[1]))),
                    TRUE, ~bIsTemporaryRedirect, NoVSIError)
       ELSE Restart(SetEndpoint(hd, IF hd.m_bUseVirtualHosting
                                    THEN SubSeq(pszEndpoint[1], Len(hd.m_osBucket) + 2,
                                                Len(pszEndpoint[1]))
                                    ELSE pszEndpoint[1]),
                    TRUE, ~bIsTemporaryRedirect, NoVSIError)

Redirect_AcceptsAnyEndpoint(hd, pszCode, body, pszHeaders, bSetError) ==
    LET bIsTemporaryRedirect == EQUAL(pszCode, "TemporaryRedirect")
        pszEndpoint == CPLGetXMLValue(body.tree, "Endpoint")
    IN IF pszEndpoint = <<>> THEN Malformed(hd, body, bSetError)
       ELSE Restart(SetEndpoint(hd, pszEndpoint[1]), TRUE, ~bIsTemporaryRedirect, NoVSIError)

Redirect(hd, pszCode, body, pszHeaders, bSetError) ==
    LET bIsTemporaryRedirect == EQUAL(pszCode, "TemporaryRedirect")
        pszEndpoint == CPLGetXMLValue(body.tree, "Endpoint")
        region == BucketRegionOf(pszHeaders)
        vh == [hd EXCEPT !.m_bUseVirtualHosting = TRUE]
    IN IF pszEndpoint = <<>>
          \/ (hd.m_bUseVirtualHosting
              /\ ~EndpointStartsWithBucket(pszEndpoint[1], hd.m_osBucket))
       THEN Malformed(hd, body, bSetError)
       ELSE IF ~hd.m_bUseVirtualHosting
               /\ EndpointStartsWithBucket(pszEndpoint[1], hd.m_osBucket)
       THEN IF FindChar(hd.m_osBucket, ".") # 0 /\ region # <<>>
            THEN Restart(SetRegion(SetEndpoint(hd, "s3." \o region[1] \o ".amazonaws.com"),
                                   region[1]),
                         TRUE, ~bIsTemporaryRedirect, NoVSIError)
            ELSE Restart(SetEndpoint(vh, SubSeq(pszEndpoint[1], Len(hd.m_osBucket) + 2,
                                                Len(pszEndpoint[1]))),
                         TRUE, ~bIsTemporaryRedirect, NoVSIError)
       ELSE Restart(SetEndpoint(hd, IF hd.m_bUseVirtualHosting
                                    THEN SubSeq(pszEndpoint[1], Len(hd.m_osBucket) + 2,
                                                Len(pszEndpoint[1]))
                                    ELSE pszEndpoint[1]),
                    TRUE, ~bIsTemporaryRedirect, NoVSIError)

TranslateError_AlwaysGeneric(pszCode, body) == VSIError(VSIE_AWSError, body.text)

\* The translation of the remaining AWS error codes into VSI errors.
TranslateError(pszCode, body) ==
    LET pszMessage == CPLGetXMLValue(body.tree, "Message")
    IN IF pszMessage = <<>> THEN VSIError(VSIE_AWSError, body.text)
       ELSE IF EQUAL(pszCode, "AccessDenied")
       THEN VSIError(VSIE_AWSAccessDenied, pszMessage[1])
       ELSE IF EQUAL(pszCode, "NoSuchBucket")
       THEN VSIError(VSIE_AWSBucketNotFound, pszMessage[1])
       ELSE IF EQUAL(pszCode, "NoSuchKey")
       THEN VSIError(VSIE_AWSObjectNotFound, pszMessage[1])
       ELSE IF EQUAL(pszCode, "SignatureDoesNotMatch")
       THEN VSIError(VSIE_AWSSignatureDoesNotMatch, pszMessage[1])
       ELSE VSIError(VSIE_AWSError, pszMessage[1])

\* VSIS3HandleHelper::CanRestartOnError(): the handle after the call, the value
\* returned, *pbUpdateMap and the VSI error raised.
CanRestartOnError(hd, body, pszHeaders, bSetError) ==
    LET tree == body.tree
        pszCode == CPLGetXMLValue(tree, "Code")
        pszRegion == CPLGetXMLValue(tree, "Region")
    IN IF ~StartsWith(body.text, "<?xml") /\ ~StartsWith(body.text, "<Error>")
       THEN Invalid(hd, body, bSetError)
       ELSE IF tree = <<>> THEN Malformed(hd, body, bSetError)
       ELSE IF pszCode = <<>> THEN Malformed(hd, body, bSetError)
       ELSE IF EQUAL(pszCode[1], "AuthorizationHeaderMalformed")
       THEN IF pszRegion = <<>> THEN Malformed(hd, body, bSetError)
            ELSE Restart(SetRegion(hd, pszRegion[1]), TRUE, TRUE, NoVSIError)
       ELSE IF EQUAL(pszCode[1], "PermanentRedirect")
               \/ EQUAL(pszCode[1], "TemporaryRedirect")
       THEN Redirect(hd, pszCode[1], body, pszHeaders, bSetError)
       ELSE Restart(hd, FALSE, TRUE,
                    IF bSetError THEN TranslateError(pszCode[1], body) ELSE NoVSIError)

-----------------------------------------------------------------------------
(* The per-bucket parameters: goMapBucketsToS3Params maps a bucket name to   *)
(* the parameters stored for it.                                             *)

SetVirtualHosting_KeepsURL(hd, b) == [hd EXCEPT !.m_bUseVirtualHosting = b]

\* VSIS3HandleHelper::SetVirtualHosting()
SetVirtualHosting(hd, b) == RebuildURL([hd EXCEPT !.m_bUseVirtualHosting = b])

\* The parameters stored for a handle: its region, endpoint and hosting style.
VSIS3UpdateParams(hd) ==
    [m_osRegion |-> hd.m_osRegion, m_osEndpoint |-> hd.m_osEndpoint,
     m_bUseVirtualHosting |-> hd.m_bUseVirtualHosting]

\* The copying of stored parameters back into a handle.
UpdateHandlerHelper(params, hd) ==
    SetVirtualHosting(SetEndpoint(SetRegion(hd, params.m_osRegion), params.m_osEndpoint),
                      params.m_bUseVirtualHosting)

UpdateMapFromHandle_FirstStoreWins(m, hd) ==
    IF hd.m_osBucket \in DOMAIN m THEN m ELSE (hd.m_osBucket :> VSIS3UpdateParams(hd)) @@ m

\* VSIS3UpdateParams::UpdateMapFromHandle()
UpdateMapFromHandle(m, hd) == (hd.m_osBucket :> VSIS3UpdateParams(hd)) @@ m

\* VSIS3UpdateParams::UpdateHandleFromMap()
UpdateHandleFromMap(m, hd) ==
    IF hd.m_osBucket \in DOMAIN m THEN UpdateHandlerHelper(m[hd.m_osBucket], hd) ELSE hd

\* VSIS3UpdateParams::ClearCache()
UpdateParamsClearCache(m) == <<>>

-----------------------------------------------------------------------------
(* Environments: the options, files and servers of one process, and the     *)
(* calls its caller makes.                                                   *)

Credentials(ak, sk) == <<"aws_access_key_id = " \o ak, "aws_secret_access_key = " \o sk>>

HomeConfig == [HOME |-> "/home/u"]
CredentialsFile(lines) == "/home/u/.aws/credentials" :> lines
ConfigFile(lines) == "/home/u/.aws/config" :> lines

\* /sys/hypervisor/uuid of a machine that is not an EC2 instance
NotEC2 == "/sys/hypervisor/uuid" :> "4c4c4544"
IsEC2 == "/sys/hypervisor/uuid" :> "ec2e1916"

StaticKeys == [AWS_SECRET_ACCESS_KEY |-> "SK_env", AWS_ACCESS_KEY_ID |-> "AK_env"]
WebIdentityOptions == [AWS_ROLE_ARN |-> "arn:web", AWS_WEB_IDENTITY_TOKEN_FILE |-> "/token"]
TokenFile == "/token" :> "jwt\n"

Request(osVerb, psExistingHeaders, data) ==
    [osVerb |-> osVerb, psExistingHeaders |-> psExistingHeaders, data |-> data]

Get == Request("GET", <<>>, "")
Put == Request("PUT", <<"Content-Type: text/plain", "x-amz-acl: private">>, "payload")

\* A process with no credential anywhere, off EC2, whose caller opens bucket/key.
BaseEnv ==
    [name |-> "none", config |-> <<>>, pathOptions |-> <<>>, files |-> NotEC2,
     stsWebIdentity |-> {}, stsAssumeRole |-> {}, imds |-> {"down"},
     imdsToken |-> {"ok"}, imdsRoles |-> {"r1"},
     uris |-> {<<"bucket/key", FALSE>>}, options |-> {<<>>}, requests |-> {Get},
     errors |-> {}, clock |-> TimeGrid, bucketParams |-> FALSE, signOptions |-> {},
     profiles |-> {}, texts |-> {}, signer |-> FALSE]

RoleConfig ==
    ConfigFile(<<"[default]", "role_arn = arn:role", "source_profile = src",
                 "region = us-west-2">>)

ChainEnvironments ==
    { [BaseEnv EXCEPT !.name = "no-sign",
                      !.config = [AWS_NO_SIGN_REQUEST |-> "YES"] @@ StaticKeys,
                      !.requests = {Get, Put}],
      [BaseEnv EXCEPT !.name = "static",
                      !.config = StaticKeys @@ HomeConfig
                                 @@ [AWS_SESSION_TOKEN |-> "TK_env",
                                     AWS_REQUEST_PAYER |-> "requester"],
                      !.pathOptions = [AWS_REGION |-> "eu-central-1"],
                      !.files = CredentialsFile(<<"[default]">> \o Credentials("AK_file", "SK_file"))
                                @@ ConfigFile(<<"[default]", "region = us-west-2">>),
                      !.options = {<<>>, [AWS_REGION |-> "eu-west-1"],
                                   [AWS_DEFAULT_REGION |-> "ap-south-1"]},
                      !.requests = {Get, Put}],
      [BaseEnv EXCEPT !.name = "secret-only",
                      !.config = [AWS_SECRET_ACCESS_KEY |-> "SK_env"] @@ WebIdentityOptions,
                      !.files = TokenFile @@ IsEC2,
                      !.stsWebIdentity = {"up"}, !.imds = {"up"}],
      [BaseEnv EXCEPT !.name = "files",
                      !.config = HomeConfig @@ WebIdentityOptions,
                      !.files = CredentialsFile(<<"[other]", "aws_access_key_id = AK_other",
                                                  "[default]">>
                                                \o Credentials("AK_file", "SK_file"))
                                @@ ConfigFile(<<"[default]", "region = us-west-2",
                                                "aws_access_key_id = AK_config">>)
                                @@ TokenFile @@ IsEC2,
                      !.stsWebIdentity = {"up"}, !.imds = {"up"},
                      !.options = {<<>>, [AWS_REGION |-> "eu-west-1"]}],
      [BaseEnv EXCEPT !.name = "files-no-region",
                      !.config = HomeConfig,
                      !.files = CredentialsFile(<<"[default]">> \o Credentials("AK_file", "SK_file")),
                      !.options = {<<>>, [AWS_REGION |-> "eu-west-1"],
                                   [AWS_REGION |-> "eu-west-1",
                                    AWS_DEFAULT_REGION |-> "ap-south-1"]}],
      [BaseEnv EXCEPT !.name = "role",
                      !.config = HomeConfig,
                      !.files = CredentialsFile(<<"[src]">> \o Credentials("AK_src", "SK_src"))
                                @@ RoleConfig @@ IsEC2,
                      !.stsAssumeRole = {"up", "down"},
                      !.imds = {"up"},
                      !.options = {<<>>, [AWS_REGION |-> "eu-west-1"]}],
      [BaseEnv EXCEPT !.name = "role-unreadable",
                      !.config = HomeConfig @@ WebIdentityOptions,
                      !.files = CredentialsFile(<<"[src]", "aws_access_key_id = AK_src">>)
                                @@ RoleConfig @@ TokenFile @@ IsEC2,
                      !.stsAssumeRole = {"up"},
                      !.stsWebIdentity = {"up"}, !.imds = {"up"}],
      [BaseEnv EXCEPT !.name = "role-web",
                      !.config = HomeConfig,
                      !.files = ConfigFile(<<"[default]", "role_arn = arn:role",
                                             "source_profile = web", "[profile web]",
                                             "role_arn = arn:web",
                                             "web_identity_token_file = /token">>)
                                @@ TokenFile,
                      !.stsAssumeRole = {"up"}, !.stsWebIdentity = {"up", "down"}],
      [BaseEnv EXCEPT !.name = "web",
                      !.config = WebIdentityOptions,
                      !.files = TokenFile @@ IsEC2,
                      !.stsWebIdentity = {"up", "down"}, !.imds = {"up"}],
      [BaseEnv EXCEPT !.name = "web-disabled",
                      !.config = WebIdentityOptions @@ [CPL_AWS_WEB_IDENTITY_ENABLE |-> "NO"],
                      !.files = TokenFile @@ IsEC2,
                      !.stsWebIdentity = {"up"}, !.imds = {"up"}],
      [BaseEnv EXCEPT !.name = "ec2",
                      !.files = IsEC2,
                      !.imds = {"up", "down"}, !.imdsToken = {"ok", "timeout"},
                      !.imdsRoles = {"r1", ""}],
      [BaseEnv EXCEPT !.name = "ec2-malformed",
                      !.files = IsEC2,
                      !.imds = {"nokey", "notoken", "baddate"}],
      [BaseEnv EXCEPT !.name = "ecs",
                      !.config = [AWS_CONTAINER_CREDENTIALS_RELATIVE_URI |-> "/v2/credentials"],
                      !.imds = {"up"},
                      !.options = {<<>>, StaticKeys}],
      BaseEnv }

ErrorBody(text, tree) == [text |-> text, tree |-> tree]

ErrorBodies ==
    { ErrorBody("Forbidden", <<>>),
      ErrorBody("<?xml version", <<>>),
      ErrorBody("<Error>", <<[Message |-> "no code"]>>),
      ErrorBody("<Error>", <<[Code |-> "AuthorizationHeaderMalformed"]>>),
      ErrorBody("<Error>", <<[Code |-> "PermanentRedirect"]>>),
      ErrorBody("<Error>", <<[Code |-> "AccessDenied", Message |-> "Access Denied"]>>),
      ErrorBody("<?xml version", <<[Code |-> "NoSuchKey"]>>),
      ErrorBody("<Error>", <<[Code |-> "NoSuchBucket", Message |-> "No such bucket"]>>),
      ErrorBody("<Error>", <<[Code |-> "NoSuchKey", Message |-> "No such key"]>>),
      ErrorBody("<Error>", <<[Code |-> "SignatureDoesNotMatch",
                              Message |-> "Signature mismatch"]>>),
      ErrorBody("<Error>", <<[Code |-> "InternalError", Message |-> "Try again"]>>),
      ErrorBody("<Error>", <<[Code |-> "accessdenied", Message |-> "Access Denied"]>>),
      ErrorBody("<Error>", <<[Code |-> "AuthorizationHeaderMalformed",
                              Message |-> "Region is wrong"]>>) }
    \cup { ErrorBody("<?xml version",
                     <<[Code |-> "AuthorizationHeaderMalformed", Region |-> r]>>)
           : r \in {"us-east-1", "eu-west-1"} }
    \cup { ErrorBody("<Error>", <<[Code |-> code, Endpoint |-> ep]>>)
           : code \in {"PermanentRedirect", "TemporaryRedirect"},
             ep \in {"bucket.s3.eu-west-1.amazonaws.com", "s3.eu-west-1.amazonaws.com",
                     "my.bucket.s3.amazonaws.com"} }

\* pszHeaders: <<>> for nullptr, else the raw header block.
NoRegionHeaders == <<"Server: AmazonS3">>
RegionHeaders == <<"x-amz-bucket-region: eu-west-1\r\nServer: AmazonS3">>

ErrorResponse(body, pszHeaders, bSetError) ==
    [body |-> body, pszHeaders |-> pszHeaders, bSetError |-> bSetError]

ErrorResponses ==
    { ErrorResponse(body, <<>>, TRUE) : body \in ErrorBodies }
    \cup { ErrorResponse(body, RegionHeaders, TRUE)
           : body \in { b \in ErrorBodies : b.tree # <<>> /\ "Endpoint" \in DOMAIN b.tree[1] } }
    \cup { ErrorResponse(ErrorBody("<Error>", <<[Code |-> "PermanentRedirect",
                                                 Endpoint |-> "my.bucket.s3.amazonaws.com"]>>),
                         NoRegionHeaders, TRUE),
           ErrorResponse(ErrorBody("<Error>", <<[Code |-> "TemporaryRedirect",
                                                 Endpoint |-> "my.bucket.s3.amazonaws.com"]>>),
                         <<"Server: AmazonS3\r\nx-amz-bucket-region: us-west-2">>, FALSE),
           ErrorResponse(ErrorBody("Forbidden", <<>>), <<>>, FALSE),
           ErrorResponse(ErrorBody("<Error>", <<[Code |-> "AccessDenied",
                                                 Message |-> "Access Denied"]>>),
                         <<>>, FALSE) }

\* A process with static credentials whose requests the server answers with errors;
\* its clock is not read at another instant.
RestartEnvironments ==
    { [BaseEnv EXCEPT !.name = "restart",
                      !.config = StaticKeys,
                      !.uris = {<<"bucket/key", FALSE>>, <<"my.bucket/key", FALSE>>},
                      !.options = {<<>>, [AWS_VIRTUAL_HOSTING |-> "FALSE"]},
                      !.errors = ErrorResponses,
                      !.clock = {}] }

\* A process with static credentials that keeps the parameters of its buckets:
\* it stores those of an adapted handle and copies them into a new one.
BucketParamsEnvironments ==
    { [BaseEnv EXCEPT !.name = "bucket-params",
                      !.config = StaticKeys,
                      !.uris = {<<"bucket/key", FALSE>>, <<"bucket/other", FALSE>>,
                                <<"my.bucket/key", FALSE>>},
                      !.errors = {
                          ErrorResponse(ErrorBody("<Error>",
                                                  <<[Code |-> "AuthorizationHeaderMalformed",
                                                     Region |-> "eu-west-1"]>>), <<>>, TRUE),
                          ErrorResponse(ErrorBody("<Error>",
                                                  <<[Code |-> "PermanentRedirect",
                                                     Endpoint |-> "my.bucket.s3.amazonaws.com"]>>),
                                        RegionHeaders, TRUE) },
                      !.clock = {},
                      !.bucketParams = TRUE] }

\* Processes with static credentials whose callers open URIs of every shape, with
\* and without the AWS_VIRTUAL_HOSTING option, over https and over http; and a
\* process that only URL-encodes texts, each character and some longer texts, and
\* calls the signer by itself.
URIEnvironments ==
    { [BaseEnv EXCEPT !.name = "uris",
                      !.config = StaticKeys,
                      !.uris = {<<"bucket/a b/c+d~e_f-g.tif", FALSE>>, <<"my.bucket/obj", FALSE>>,
                                <<"", TRUE>>, <<"/key", FALSE>>, <<"bucket", TRUE>>,
                                <<"bucket", FALSE>>},
                      !.options = {<<>>, [AWS_VIRTUAL_HOSTING |-> "FALSE"],
                                   [AWS_VIRTUAL_HOSTING |-> "TRUE"]},
                      !.clock = {}],
      [BaseEnv EXCEPT !.name = "texts",
                      !.uris = {},
                      !.texts = DOMAIN CharCodes
                                \cup {"", "Key_0-9~.tif", "a b/c+d~e_f-g.tif", "100%/=&?"},
                      !.signer = TRUE,
                      !.clock = {}],
      [BaseEnv EXCEPT !.name = "uris-http",
                      !.config = StaticKeys @@ [AWS_HTTPS |-> "NO"],
                      !.pathOptions = [AWS_VIRTUAL_HOSTING |-> "NO"],
                      !.uris = {<<"bucket/a b/c+d~e_f-g.tif", FALSE>>, <<"my.bucket/obj", FALSE>>,
                                <<"", TRUE>>},
                      !.options = {<<>>, [AWS_VIRTUAL_HOSTING |-> "TRUE"]},
                      !.clock = {}] }

\* Processes whose callers ask for presigned URLs: with static credentials, with
\* and without a session token and a request payer, and on EC2, where the
\* credentials expire.
PresignEnvironments ==
    { [BaseEnv EXCEPT !.name = "presign",
                      !.config = StaticKeys @@ [AWS_SESSION_TOKEN |-> "TK_env",
                                                AWS_REQUEST_PAYER |-> "requester"],
                      !.uris = {<<"bucket/key", FALSE>>, <<"my.bucket/obj", FALSE>>},
                      !.requests = {},
                      !.signOptions = {<<>>, [VERB |-> "PUT", EXPIRATION_DELAY |-> "10"],
                                       [START_DATE |-> "19700101T000010Z"]},
                      !.clock = {}],
      [BaseEnv EXCEPT !.name = "presign-plain",
                      !.config = StaticKeys,
                      !.uris = {<<"bucket/a b/c+d~e_f-g.tif", FALSE>>, <<"", TRUE>>},
                      !.requests = {},
                      !.signOptions = {<<>>},
                      !.clock = {}],
      [BaseEnv EXCEPT !.name = "presign-ec2",
                      !.files = IsEC2,
                      !.imds = {"up"},
                      !.requests = {},
                      !.signOptions = {<<>>, [EXPIRATION_DELAY |-> "10"],
                                       [START_DATE |-> "soon"]},
                      !.clock = {ExpA - Margin - 11, ExpA - Margin - 10}] }

\* Processes whose credentials file and config file both speak of the selected
\* profile: with conflicting values, with the same values, with the keys in the
\* config file only, and with a profile that is not the default one.
ConfigFilesEnvironments ==
    { [BaseEnv EXCEPT !.name = "files-conflict",
                      !.config = HomeConfig,
                      !.files = CredentialsFile(<<"[default]", "aws_access_key_id = AK_file",
                                                  "aws_secret_access_key = SK_file",
                                                  "aws_session_token = TK_file">>)
                                @@ ConfigFile(<<"[default]", "aws_access_key_id = AK_config",
                                                "aws_secret_access_key = SK_config",
                                                "aws_session_token = TK_config",
                                                "region = us-west-2">>),
                      !.profiles = {<<>>}, !.requests = {}, !.clock = {}],
      [BaseEnv EXCEPT !.name = "files-agree",
                      !.config = HomeConfig,
                      !.files = CredentialsFile(<<"[default]">> \o Credentials("AK_file", "SK_file"))
                                @@ ConfigFile(<<"[default]">> \o Credentials("AK_file", "SK_file")
                                              \o <<"aws_session_token = TK_config">>),
                      !.profiles = {<<>>, <<"default">>}, !.requests = {}, !.clock = {}],
      [BaseEnv EXCEPT !.name = "files-config-only",
                      !.config = HomeConfig,
                      !.files = CredentialsFile(<<"[other]">> \o Credentials("AK_other", "SK_other")
                                                \o <<"[default]">>)
                                @@ ConfigFile(<<"[default]">> \o Credentials("AK_config", "SK_config")
                                              \o <<"aws_session_token = TK_config">>),
                      !.profiles = {<<>>}, !.requests = {}, !.clock = {}],
      [BaseEnv EXCEPT !.name = "files-profile",
                      !.config = HomeConfig @@ [AWS_PROFILE |-> "foo"],
                      !.files = CredentialsFile(<<"[default]">> \o Credentials("AK_file", "SK_file")
                                                \o <<"[foo]", "aws_access_key_id = AK_foo">>)
                                @@ ConfigFile(<<"[default]", "aws_access_key_id = AK_config",
                                                "[profile foo]",
                                                "aws_secret_access_key = SK_foo_config",
                                                "aws_access_key_id = AK_foo_config">>),
                      !.profiles = {<<>>, <<"default">>}, !.requests = {}, !.clock = {}] }

\* A process with static credentials whose requests carry headers of their own:
\* x-amz-* and Content-MD5 headers in mixed case with blanks around the values,
\* a header that is not signed, and two headers whose names differ in case only.
HeaderEnvironments ==
    { [BaseEnv EXCEPT !.name = "headers",
                      !.config = StaticKeys,
                      !.requests = {Request("PUT", <<"x-amz-meta-b: 2", "Content-MD5: abc",
                                                      "X-Amz-Meta-A:  1 ">>, "payload"),
                                    Request("PUT", <<"Content-Type: text/plain",
                                                      "x-amz-acl:private">>, ""),
                                    Request("PUT", <<"x-amz-meta-a: 1", "X-Amz-Meta-A: 2">>,
                                            "payload")},
                      !.clock = {}] }

\* Processes whose dynamic provider always answers: a configured role with
\* readable source credentials, and a web identity.
RefreshEnvironments ==
    { [BaseEnv EXCEPT !.name = "role-up",
                      !.config = HomeConfig,
                      !.files = CredentialsFile(<<"[src]">> \o Credentials("AK_src", "SK_src"))
                                @@ RoleConfig,
                      !.stsAssumeRole = {"up"}],
      [BaseEnv EXCEPT !.name = "web-up",
                      !.config = WebIdentityOptions,
                      !.files = TokenFile @@ NotEC2,
                      !.stsWebIdentity = {"up"}] }

Environments ==
    ChainEnvironments \cup RestartEnvironments \cup BucketParamsEnvironments
    \cup URIEnvironments \cup PresignEnvironments \cup ConfigFilesEnvironments
    \cup HeaderEnvironments \cup RefreshEnvironments

-----------------------------------------------------------------------------
(* The operations *)

-----------------------------------------------------------------------------
(* Threads.  The callers of one process run on several threads, each with   *)
(* its own handle; a call is cut at its lock acquisitions and at its        *)
(* blocking HTTP fetches.                                                   *)

Threads == {1, 2}

\* The X-Amz-Expires values the threads ask GetSignedURL for.
ThreadExpirationDelays == {10, 3600}

\* ghMutex, taken by CPLMutexHolder: a holder inside the scope of another holder
\* of the same thread (RefreshCredentials called by GetSignedURL) nests.
FreeMutex == [owner |-> 0, count |-> 0]

Acquirable(m, t) == m.owner \in {0, t}

Acquire(m, t) == [owner |-> t, count |-> m.count + 1]

\* The end of the scope of a CPLMutexHolder.
Release(m) == IF m.count = 1 THEN FreeMutex ELSE [m EXCEPT !.count = @ - 1]

\* What a step of a thread leaves in last.
ThreadStep == [op |-> "thread"]

\* The handle and the locals of a thread that is in no call and owns no handle:
\* op the caller's operation, fn the provider it is running, resp the
\* Credentials element it fetched.
NoLocals ==
    [h |-> NoHandle, op |-> "none", fn |-> "none", bForceRefresh |-> FALSE,
     resp |-> NoCredentials]

\* The handle a thread owns after a resolution: its source and the per-bucket
\* parameters of a new handle.  Its region and its copy of the credentials, which
\* its thread alone reads and writes, are left out.
ThreadHandle(source) ==
    [NoHandle EXCEPT !.exists = TRUE, !.m_osBucket = "bucket", !.m_osObjectKey = "key",
                     !.m_osRegion = "us-east-1", !.m_osEndpoint = "s3.amazonaws.com",
                     !.m_eCredentialsSource = source]

\* The provider of a credentials source, called with empty in/out strings.
Provider(fn, c, t, e, bForceRefresh) ==
    IF fn = EC2 THEN GetConfigurationFromEC2(c, t, e, bForceRefresh, "", "", "")
    ELSE IF fn = WEB_IDENTITY
    THEN GetConfigurationFromAssumeRoleWithWebIdentity(c, t, e, bForceRefresh, "", "", "", "", "")
    ELSE GetOrRefreshTemporaryCredentialsForRole(c, t, e, bForceRefresh, "", "", "", "")

\* GetOrRefreshTemporaryCredentialsForRole clears the cached credentials before
\* the AssumeRole request.
ClearedCredentials(c) ==
    [c EXCEPT !.gosGlobalSecretAccessKey = "", !.gosGlobalAccessKeyId = "",
              !.gosGlobalSessionToken = ""]

\* The profile GetConfiguration reads from the config files, and the credentials
\* of its source profile.
ConfiguredProfile(e) ==
    GetConfigurationFromAWSConfigFiles(e, <<>>, [NoFileParams EXCEPT !.osRegion = "us-east-1"])

SourceProfileCredentials(e, p) == ReadAWSCredentials(e, p.osSourceProfile, p.osCredentials)

\* A thread leaves its call.
Idle(t, loc) == [loc EXCEPT ![t] = [NoLocals EXCEPT !.h = loc[t].h]]

\* GetConfiguration after "Next try to see if we have a current assumed role":
\* the config files, then the web identity provider.
AfterCachedRole(t) ==
    \E f \in {ConfiguredProfile(env)} :
        IF f.ret /\ f.p.osSecretAccessKey = "" /\ f.p.osRoleArn # ""
        THEN /\ pc' = [pc EXCEPT ![t] = "GetConfiguration:1635"]
             /\ local' = [local EXCEPT ![t].op = "GetConfiguration", ![t].fn = "none"]
        ELSE IF f.ret
        THEN /\ pc' = [pc EXCEPT ![t] = "idle"]
             /\ local' = [local EXCEPT ![t] = [NoLocals EXCEPT !.h = ThreadHandle(REGULAR)]]
        ELSE /\ pc' = [pc EXCEPT ![t] = "provider:lock"]
             /\ local' = [local EXCEPT ![t].op = "GetConfiguration",
                                       ![t].fn = WEB_IDENTITY, ![t].bForceRefresh = FALSE]

\* GetConfiguration() up to the read of gosRoleArn under ghMutex and what it
\* decides: the provider of the cached role, or the rest of the chain.
GetConfigurationBegin ==
    \E t \in Threads :
        /\ pc[t] = "idle"
        /\ Acquirable(ghMutex, t)
        /\ IF cache.gosRoleArn # ""
           THEN /\ pc' = [pc EXCEPT ![t] = "provider:lock"]
                /\ local' = [local EXCEPT ![t].op = "GetConfiguration",
                                          ![t].fn = ASSUMED_ROLE,
                                          ![t].bForceRefresh = FALSE]
           ELSE AfterCachedRole(t)
        /\ last' = ThreadStep
        /\ UNCHANGED <<cache, h, now, env, goMapBucketsToS3Params, ghMutex, gsMutex>>

\* GetCurlHeaders() up to its call of a provider: RefreshCredentials(false).
RefreshCredentialsBegin ==
    \E t \in Threads :
        /\ pc[t] = "idle"
        /\ local[t].h.exists /\ local[t].h.m_eCredentialsSource # REGULAR
        /\ pc' = [pc EXCEPT ![t] = "provider:lock"]
        /\ local' = [local EXCEPT ![t].op = "GetCurlHeaders",
                                  ![t].fn = local[t].h.m_eCredentialsSource,
                                  ![t].bForceRefresh = FALSE]
        /\ last' = ThreadStep
        /\ UNCHANGED <<cache, h, now, env, goMapBucketsToS3Params, ghMutex, gsMutex>>

\* A holder at the head of a provider that waits for ghMutex to be free, whoever
\* holds it.
ProviderLock_WaitsForFreeMutex ==
    \E t \in Threads :
        /\ pc[t] = "provider:lock"
        /\ ghMutex.owner = 0
        /\ ghMutex' = [owner |-> t, count |-> 1]
        /\ pc' = [pc EXCEPT ![t] = "provider:entry"]
        /\ last' = [op |-> "thread"]
        /\ UNCHANGED <<cache, h, now, env, goMapBucketsToS3Params, local, gsMutex>>

\* The CPLMutexHolder at the head of a provider.
ProviderLock ==
    \E t \in Threads :
        /\ pc[t] = "provider:lock"
        /\ Acquirable(ghMutex, t)
        /\ ghMutex' = Acquire(ghMutex, t)
        /\ pc' = [pc EXCEPT ![t] = "provider:entry"]
        /\ last' = ThreadStep
        /\ UNCHANGED <<cache, h, now, env, goMapBucketsToS3Params, local, gsMutex>>

\* The return of a provider to the caller's operation: the holder goes out of
\* scope, a successful resolution makes the handle of the thread.
ProviderReturn(t, o) ==
    LET op == local[t].op
        fn == local[t].fn
        loc == [local EXCEPT ![t].h = IF o.ret /\ op = "GetConfiguration"
                                      THEN ThreadHandle(fn) ELSE @]
    IN /\ cache' = o.c
       /\ ghMutex' = Release(ghMutex)
       /\ IF op = "GetSignedURL"
          THEN /\ pc' = [pc EXCEPT ![t] = "GetSignedURL:2262"]
               /\ local' = loc
          ELSE IF op = "GetConfiguration" /\ ~o.ret /\ fn = ASSUMED_ROLE
          THEN AfterCachedRole(t)
          ELSE IF op = "GetConfiguration" /\ ~o.ret /\ fn = WEB_IDENTITY
          THEN /\ pc' = [pc EXCEPT ![t] = "provider:lock"]
               /\ local' = [loc EXCEPT ![t].fn = EC2]
          ELSE /\ pc' = [pc EXCEPT ![t] = "idle"]
               /\ local' = Idle(t, loc)

\* A provider from its reuse test to its first HTTP request: it returns what the
\* cache holds, or fails for want of a setting, or goes on to fetch.
ProviderEntry ==
    \E t \in Threads :
        /\ pc[t] = "provider:entry"
        /\ \E O \in {Provider(local[t].fn, cache, now, env, local[t].bForceRefresh)} :
              IF \E o \in O : o.fetches = <<>>
              THEN \E o \in O :
                       /\ o.fetches = <<>>
                       /\ ProviderReturn(t, o)
                       /\ last' = ThreadStep
              ELSE /\ cache' = IF local[t].fn = ASSUMED_ROLE THEN ClearedCredentials(cache)
                               ELSE cache
                   /\ pc' = [pc EXCEPT ![t] = "provider:fetch"]
                   /\ last' = ThreadStep
                   /\ UNCHANGED <<local, ghMutex>>
        /\ UNCHANGED <<h, now, env, goMapBucketsToS3Params, gsMutex>>

\* The HTTP requests of a provider come back, and the provider runs to its end.
ProviderFetchReturns ==
    \E t \in Threads :
        /\ pc[t] = "provider:fetch"
        /\ \E o \in Provider(local[t].fn, cache, now, env, TRUE) :
               /\ o.fetches # <<>>
               /\ ProviderReturn(t, o)
               /\ last' = ThreadStep
        /\ UNCHANGED <<h, now, env, goMapBucketsToS3Params, gsMutex>>

\* The positions at which a thread is inside a scope that writes
\* gosRoleArnWebIdentity.
WritesRoleArnWebIdentity == {"ClearCache:1748"}

\* What the test gosRoleArnWebIdentity.empty() of GetConfiguration can read: the
\* test is made with no CPLMutexHolder in scope, so that beside the value of the
\* cache it can read the one another thread is writing.
RoleArnWebIdentityEmpty(t) ==
    {cache.gosRoleArnWebIdentity = ""}
        \cup {TRUE : u \in {v \in Threads \ {t} : pc[v] \in WritesRoleArnWebIdentity}}

\* GetConfiguration(): "if( gosRoleArnWebIdentity.empty() )" and the read of the
\* credentials of the source profile.
GetConfigurationSourceProfile ==
    \E t \in Threads :
        /\ pc[t] = "GetConfiguration:1635"
        /\ \E bEmpty \in RoleArnWebIdentityEmpty(t) :
               IF bEmpty /\ ~SourceProfileCredentials(env, ConfiguredProfile(env).p).ret
               THEN /\ pc' = [pc EXCEPT ![t] = "idle"]
                    /\ local' = Idle(t, local)
               ELSE /\ pc' = [pc EXCEPT ![t] = "GetConfiguration:fetch"]
                    /\ UNCHANGED local
        /\ last' = ThreadStep
        /\ UNCHANGED <<cache, h, now, env, goMapBucketsToS3Params, ghMutex, gsMutex>>

\* GetConfiguration(): the AssumeRole request for the role_arn of the config
\* file comes back.
AssumeRoleReturns ==
    \E t \in Threads :
        /\ pc[t] = "GetConfiguration:fetch"
        /\ \E resp \in Responses("STS", env.stsAssumeRole) :
               IF GetTemporaryCredentialsForRole(resp, "", "", "").bRet
               THEN /\ pc' = [pc EXCEPT ![t] = "GetConfiguration:1671"]
                    /\ local' = [local EXCEPT ![t].resp = resp]
               ELSE /\ pc' = [pc EXCEPT ![t] = "idle"]
                    /\ local' = Idle(t, local)
        /\ last' = ThreadStep
        /\ UNCHANGED <<cache, h, now, env, goMapBucketsToS3Params, ghMutex, gsMutex>>

\* GetConfiguration(): the CPLMutexHolder of "Store global variables".
GetConfigurationLock ==
    \E t \in Threads :
        /\ pc[t] = "GetConfiguration:1671"
        /\ Acquirable(ghMutex, t)
        /\ ghMutex' = Acquire(ghMutex, t)
        /\ pc' = [pc EXCEPT ![t] = "GetConfiguration:1672"]
        /\ last' = ThreadStep
        /\ UNCHANGED <<cache, h, now, env, goMapBucketsToS3Params, local, gsMutex>>

\* GetConfiguration(): the temporary credentials go to the cache and to the
\* caller, the source is ASSUMED_ROLE.
GetConfigurationStore ==
    \E t \in Threads :
        /\ pc[t] = "GetConfiguration:1672"
        /\ \E p \in {ConfiguredProfile(env).p} :
               \E sp \in {SourceProfileCredentials(env, p)} :
                   cache' = StoreAssumedRole(
                                cache, GetTemporaryCredentialsForRole(local[t].resp, "", "", ""),
                                p, sp.osSecretAccessKey, sp.osAccessKeyId, sp.osSessionToken,
                                p.osRegion)
        /\ local' = [local EXCEPT ![t] = [NoLocals EXCEPT !.h = ThreadHandle(ASSUMED_ROLE)]]
        /\ last' = ThreadStep
        /\ ghMutex' = Release(ghMutex)
        /\ pc' = [pc EXCEPT ![t] = "idle"]
        /\ UNCHANGED <<h, now, env, goMapBucketsToS3Params, gsMutex>>

\* GetSignedURL() of a handle whose source is not REGULAR: the CPLMutexHolder.
GetSignedURLLock ==
    \E t \in Threads :
        /\ pc[t] = "idle"
        /\ local[t].h.exists /\ local[t].h.m_eCredentialsSource # REGULAR
        /\ Acquirable(ghMutex, t)
        /\ ghMutex' = Acquire(ghMutex, t)
        /\ pc' = [pc EXCEPT ![t] = "GetSignedURL:2258"]
        /\ local' = [local EXCEPT ![t].op = "GetSignedURL"]
        /\ last' = ThreadStep
        /\ UNCHANGED <<cache, h, now, env, goMapBucketsToS3Params, gsMutex>>

\* GetSignedURL(): the test of the window against the cached expiration and,
\* under the holder, the call of RefreshCredentials(true).
GetSignedURLCheck ==
    \E t \in Threads :
        /\ pc[t] = "GetSignedURL:2258"
        /\ \E nExpires \in ThreadExpirationDelays :
               IF now + nExpires >= cache.gnGlobalExpiration - Margin
               THEN /\ pc' = [pc EXCEPT ![t] = "provider:lock"]
                    /\ local' = [local EXCEPT ![t].fn = local[t].h.m_eCredentialsSource,
                                              ![t].bForceRefresh = TRUE]
               ELSE /\ pc' = [pc EXCEPT ![t] = "GetSignedURL:2262"]
                    /\ UNCHANGED local
        /\ last' = ThreadStep
        /\ UNCHANGED <<cache, h, now, env, goMapBucketsToS3Params, ghMutex, gsMutex>>

\* GetSignedURL(): the holder goes out of scope; the URL is signed with the
\* credentials of the handle.
GetSignedURLUnlock ==
    \E t \in Threads :
        /\ pc[t] = "GetSignedURL:2262"
        /\ ghMutex' = Release(ghMutex)
        /\ pc' = [pc EXCEPT ![t] = "idle"]
        /\ local' = Idle(t, local)
        /\ last' = ThreadStep
        /\ UNCHANGED <<cache, h, now, env, goMapBucketsToS3Params, gsMutex>>

\* VSIS3HandleHelper::ClearCache(): the CPLMutexHolder.
ClearCacheLock ==
    \E t \in Threads :
        /\ pc[t] = "idle"
        /\ Acquirable(ghMutex, t)
        /\ ghMutex' = Acquire(ghMutex, t)
        /\ pc' = [pc EXCEPT ![t] = "ClearCache:1748"]
        /\ last' = ThreadStep
        /\ UNCHANGED <<cache, h, now, env, goMapBucketsToS3Params, local, gsMutex>>

\* VSIS3HandleHelper::ClearCache(): the clearing, to the end of the scope.
ClearCacheClear ==
    \E t \in Threads :
        /\ pc[t] = "ClearCache:1748"
        /\ cache' = ClearedCache(cache)
        /\ ghMutex' = Release(ghMutex)
        /\ pc' = [pc EXCEPT ![t] = "idle"]
        /\ last' = ThreadStep
        /\ UNCHANGED <<h, now, env, goMapBucketsToS3Params, local, gsMutex>>

\* The std::lock_guard at the head of a function of VSIS3UpdateParams.
UpdateParamsLock ==
    \E t \in Threads :
        /\ pc[t] = "idle"
        /\ gsMutex = 0
        /\ gsMutex' = t
        /\ \E fn \in {"UpdateMapFromHandle", "UpdateHandleFromMap", "VSIS3UpdateParams::ClearCache"} :
               /\ fn # "VSIS3UpdateParams::ClearCache" => local[t].h.exists
               /\ pc' = [pc EXCEPT ![t] = fn]
        /\ last' = ThreadStep
        /\ UNCHANGED <<cache, h, now, env, goMapBucketsToS3Params, local, ghMutex>>

\* The body of a function of VSIS3UpdateParams, to the end of the guard's scope.
UpdateParamsBody ==
    \E t \in Threads :
        /\ pc[t] \in {"UpdateMapFromHandle", "UpdateHandleFromMap", "VSIS3UpdateParams::ClearCache"}
        /\ goMapBucketsToS3Params' =
               IF pc[t] = "UpdateMapFromHandle"
               THEN UpdateMapFromHandle(goMapBucketsToS3Params, local[t].h)
               ELSE IF pc[t] = "UpdateHandleFromMap" THEN goMapBucketsToS3Params
               ELSE UpdateParamsClearCache(goMapBucketsToS3Params)
        /\ local' = IF pc[t] = "UpdateHandleFromMap"
                    THEN [local EXCEPT ![t].h = UpdateHandleFromMap(goMapBucketsToS3Params, @)]
                    ELSE local
        /\ gsMutex' = 0
        /\ pc' = [pc EXCEPT ![t] = "idle"]
        /\ last' = ThreadStep
        /\ UNCHANGED <<cache, h, now, env, ghMutex>>

\* What a GetConfiguration call reported, the cache left aside.
Report(gc) == [f \in DOMAIN gc \ {"c"} |-> gc[f]]

BuildFromURIAction ==
    \E u \in env.uris, papszOptions \in env.options :
        \E r \in BuildFromURI(cache, now, env, u[1], u[2], papszOptions) :
            /\ cache' = r.gc.c
            /\ h' = IF r.handle.exists THEN r.handle ELSE h
            /\ last' = [op |-> "BuildFromURI", pszURI |-> u[1], bAllowNoObject |-> u[2],
                        papszOptions |-> papszOptions, gc |-> Report(r.gc),
                        handle |-> r.handle]
            /\ UNCHANGED <<now, env, goMapBucketsToS3Params>> /\ UNCHANGED threadVars

GetCurlHeadersAction ==
    /\ h.exists
    /\ \E q \in env.requests :
        \E r \in GetCurlHeaders(h, cache, now, env, q.osVerb, q.psExistingHeaders, q.data) :
            /\ cache' = r.c
            /\ h' = r.h
            /\ last' = [op |-> "GetCurlHeaders", request |-> q, fetches |-> r.fetches,
                        calls |-> r.calls, headers |-> r.out.headers, auth |-> r.out.auth]
            /\ UNCHANGED <<now, env, goMapBucketsToS3Params>> /\ UNCHANGED threadVars

ClearCacheAction ==
    /\ cache' = ClearedCache(cache)
    /\ last' = [op |-> "ClearCache"]
    /\ UNCHANGED <<h, now, env, goMapBucketsToS3Params>> /\ UNCHANGED threadVars

CanRestartOnErrorAction ==
    /\ h.exists
    /\ \E x \in env.errors :
        \E r \in {CanRestartOnError(h, x.body, x.pszHeaders, x.bSetError)} :
           /\ h' = r.h
           /\ last' = [op |-> "CanRestartOnError", body |-> x.body,
                       pszHeaders |-> x.pszHeaders, bSetError |-> x.bSetError,
                       ret |-> r.ret, bUpdateMap |-> r.bUpdateMap, error |-> r.error,
                       message |-> r.message]
           /\ UNCHANGED <<cache, now, env, goMapBucketsToS3Params>> /\ UNCHANGED threadVars

\* VSIS3UpdateParams::UpdateMapFromHandle(&h)
UpdateMapFromHandleAction ==
    /\ env.bucketParams /\ h.exists
    /\ goMapBucketsToS3Params' = UpdateMapFromHandle(goMapBucketsToS3Params, h)
    /\ last' = [op |-> "UpdateMapFromHandle"]
    /\ UNCHANGED <<cache, h, now, env>> /\ UNCHANGED threadVars

\* VSIS3UpdateParams::UpdateHandleFromMap(&h)
UpdateHandleFromMapAction ==
    /\ env.bucketParams /\ h.exists
    /\ h' = UpdateHandleFromMap(goMapBucketsToS3Params, h)
    /\ last' = [op |-> "UpdateHandleFromMap"]
    /\ UNCHANGED <<cache, now, env, goMapBucketsToS3Params>> /\ UNCHANGED threadVars

\* VSIS3UpdateParams::ClearCache()
UpdateParamsClearCacheAction ==
    /\ env.bucketParams
    /\ goMapBucketsToS3Params' = UpdateParamsClearCache(goMapBucketsToS3Params)
    /\ last' = [op |-> "VSIS3UpdateParams::ClearCache"]
    /\ UNCHANGED <<cache, h, now, env>> /\ UNCHANGED threadVars

\* VSIS3HandleHelper::GetSignedURL(papszOptions)
GetSignedURLAction ==
    /\ h.exists
    /\ \E papszOptions \in env.signOptions :
        \E r \in GetSignedURL(h, cache, now, env, papszOptions) :
            /\ cache' = r.c
            /\ h' = r.h
            /\ last' = [op |-> "GetSignedURL", papszOptions |-> papszOptions, before |-> h,
                        ret |-> r.ret, signed |-> r.signed, fetches |-> r.fetches,
                        calls |-> r.calls]
            /\ UNCHANGED <<now, env, goMapBucketsToS3Params>> /\ UNCHANGED threadVars

\* VSIS3HandleHelper::GetConfigurationFromAWSConfigFiles(pszProfile, ...)
GetConfigurationFromAWSConfigFilesAction ==
    /\ \E pszProfile \in env.profiles :
        \E r \in {GetConfigurationFromAWSConfigFiles(env, pszProfile, NoFileParams)} :
            last' = [op |-> "GetConfigurationFromAWSConfigFiles", pszProfile |-> pszProfile,
                     ret |-> r.ret, p |-> r.p]
    /\ UNCHANGED <<cache, h, now, env, goMapBucketsToS3Params>> /\ UNCHANGED threadVars

\* CPLAWSURLEncode(osURL, bEncodeSlash)
CPLAWSURLEncodeAction ==
    /\ \E osURL \in env.texts, bEncodeSlash \in BOOLEAN :
        last' = [op |-> "CPLAWSURLEncode", osURL |-> osURL, bEncodeSlash |-> bEncodeSlash,
                 ret |-> CPLAWSURLEncode(osURL, bEncodeSlash)]
    /\ UNCHANGED <<cache, h, now, env, goMapBucketsToS3Params>> /\ UNCHANGED threadVars

\* CPLGetAWS_SIGN4_Authorization(), called by itself for a request to S3 or STS.
CPLGetAWS_SIGN4_AuthorizationAction ==
    /\ env.signer
    /\ \E osAccessToken \in {"", "TK"}, osRequestPayer \in {"", "requester"},
          osService \in {"s3", "sts"},
          psExistingHeaders \in {<<>>, <<"X-Amz-Meta-A: 1", "Content-MD5: abc",
                                        "Content-Type: text/plain">>},
          osXAMZContentSHA256 \in {"UNSIGNED-PAYLOAD", CPLGetLowerCaseHexSHA256("")},
          bAddHeaderAMZContentSHA256 \in BOOLEAN :
        \E r \in {CPLGetAWS_SIGN4_Authorization(
                      "SK", "AK", osAccessToken, "us-east-1", osRequestPayer, osService,
                      "GET", psExistingHeaders, "host.example", "/", "",
                      osXAMZContentSHA256, bAddHeaderAMZContentSHA256,
                      "19700101T000130Z")} :
            last' = [op |-> "CPLGetAWS_SIGN4_Authorization", osAccessKeyId |-> "AK",
                     osAccessToken |-> osAccessToken, osRegion |-> "us-east-1",
                     osRequestPayer |-> osRequestPayer, osService |-> osService,
                     psExistingHeaders |-> psExistingHeaders,
                     osXAMZContentSHA256 |-> osXAMZContentSHA256,
                     bAddHeaderAMZContentSHA256 |-> bAddHeaderAMZContentSHA256,
                     osTimestamp |-> "19700101T000130Z", ret |-> r.osAuthorization]
    /\ UNCHANGED <<cache, h, now, env, goMapBucketsToS3Params>> /\ UNCHANGED threadVars

\* Time passes.
Tick ==
    /\ \E t \in env.clock : t > now /\ now' = t
    /\ last' = [op |-> "Tick"]
    /\ UNCHANGED <<cache, h, env, goMapBucketsToS3Params>> /\ UNCHANGED threadVars

Init ==
    /\ cache = EmptyCache
    /\ h = NoHandle
    /\ now = 0
    /\ env \in Environments
    /\ last = [op |-> "Init"]
    /\ goMapBucketsToS3Params = <<>>
    /\ pc = [t \in Threads |-> "idle"]
    /\ local = [t \in Threads |-> NoLocals]
    /\ ghMutex = FreeMutex
    /\ gsMutex = 0

Next ==
    \/ BuildFromURIAction
    \/ GetCurlHeadersAction
    \/ ClearCacheAction
    \/ CanRestartOnErrorAction
    \/ UpdateMapFromHandleAction
    \/ UpdateHandleFromMapAction
    \/ GetSignedURLAction
    \/ GetConfigurationFromAWSConfigFilesAction
    \/ CPLAWSURLEncodeAction
    \/ CPLGetAWS_SIGN4_AuthorizationAction
    \/ UpdateParamsClearCacheAction
    \/ Tick

Spec == Init /\ [][Next]_vars

-----------------------------------------------------------------------------
(* The process with threads *)

\* Processes whose files name a role to assume, or whose options name a web
\* identity, or that run on EC2, with servers that answer, fail, or answer with
\* an Expiration that does not parse.
ThreadEnvironments ==
    { [BaseEnv EXCEPT !.name = "threads-role",
                      !.config = HomeConfig,
                      !.files = CredentialsFile(<<"[src]">> \o Credentials("AK_src", "SK_src"))
                                @@ RoleConfig @@ IsEC2,
                      !.stsAssumeRole = {"up", "down", "baddate"}],
      [BaseEnv EXCEPT !.name = "threads-web",
                      !.config = WebIdentityOptions,
                      !.files = TokenFile @@ NotEC2,
                      !.stsWebIdentity = {"up", "down"}],
      [BaseEnv EXCEPT !.name = "threads-ec2",
                      !.files = IsEC2,
                      !.imds = {"up", "down"}] }

ThreadsInit ==
    /\ cache = EmptyCache
    /\ h = NoHandle
    /\ now = 0
    /\ env \in ThreadEnvironments
    /\ last = [op |-> "Init"]
    /\ goMapBucketsToS3Params = <<>>
    /\ pc = [t \in Threads |-> "idle"]
    /\ local = [t \in Threads |-> NoLocals]
    /\ ghMutex = FreeMutex
    /\ gsMutex = 0

ThreadsNext ==
    \/ GetConfigurationBegin
    \/ RefreshCredentialsBegin
    \/ ProviderLock
    \/ ProviderEntry
    \/ ProviderFetchReturns
    \/ GetConfigurationSourceProfile
    \/ AssumeRoleReturns
    \/ GetConfigurationLock
    \/ GetConfigurationStore
    \/ GetSignedURLLock
    \/ GetSignedURLCheck
    \/ GetSignedURLUnlock
    \/ ClearCacheLock
    \/ ClearCacheClear
    \/ UpdateParamsLock
    \/ UpdateParamsBody

ThreadsSpec == ThreadsInit /\ [][ThreadsNext]_vars

-----------------------------------------------------------------------------
(* The handle alone: one caller that builds a handle and then calls its      *)
(* public methods in any order.                                              *)

\* The endpoint the caller sets and the query parameters it adds.
HandleEndpoints == {"localhost:9000"}
HandleQueryParameters == {<<"uploads", "">>, <<"prefix", "a b/c">>}

\* One error response of each kind CanRestartOnError tells apart: a body that is
\* not XML, XML that does not parse, no Code, no Region, no Endpoint, an Endpoint
\* that does not start with the bucket, a code that is final; and the responses
\* that let the request restart.
HandleErrorResponses ==
    { ErrorResponse(ErrorBody("Forbidden", <<>>), <<>>, TRUE),
      ErrorResponse(ErrorBody("<?xml version", <<>>), <<>>, FALSE),
      ErrorResponse(ErrorBody("<Error>", <<[Message |-> "no code"]>>), <<>>, TRUE),
      ErrorResponse(ErrorBody("<Error>", <<[Code |-> "AuthorizationHeaderMalformed"]>>),
                    <<>>, TRUE),
      ErrorResponse(ErrorBody("<Error>", <<[Code |-> "PermanentRedirect"]>>), <<>>, TRUE),
      ErrorResponse(ErrorBody("<Error>", <<[Code |-> "TemporaryRedirect",
                                           Endpoint |-> "s3.eu-west-1.amazonaws.com"]>>),
                    RegionHeaders, TRUE),
      ErrorResponse(ErrorBody("<Error>", <<[Code |-> "NoSuchKey",
                                           Message |-> "No such key"]>>), <<>>, TRUE),
      ErrorResponse(ErrorBody("<?xml version", <<[Code |-> "AuthorizationHeaderMalformed",
                                                 Region |-> "eu-west-1"]>>), <<>>, TRUE),
      ErrorResponse(ErrorBody("<Error>", <<[Code |-> "PermanentRedirect",
                                           Endpoint |-> "bucket.s3.eu-west-1.amazonaws.com"]>>),
                    <<>>, TRUE),
      ErrorResponse(ErrorBody("<Error>", <<[Code |-> "PermanentRedirect",
                                           Endpoint |-> "my.bucket.s3.amazonaws.com"]>>),
                    RegionHeaders, TRUE) }

\* Processes with static credentials whose callers add query parameters to their
\* handles and sign requests: one meets every kind of error response, the other presigns
\* URLs and meets a redirect and an error that is final; and a process on EC2
\* whose caller presigns URLs, once with a start date that does not parse.
HandleEnvironments ==
    { [BaseEnv EXCEPT !.name = "handle",
                      !.config = StaticKeys,
                      !.uris = {<<"bucket/key", FALSE>>, <<"my.bucket/key", FALSE>>},
                      !.errors = HandleErrorResponses,
                      !.clock = {}],
      [BaseEnv EXCEPT !.name = "handle-presign",
                      !.config = StaticKeys @@ [AWS_SESSION_TOKEN |-> "TK_env"],
                      !.errors = {
                          ErrorResponse(ErrorBody("<Error>",
                                                  <<[Code |-> "PermanentRedirect",
                                                     Endpoint |-> "bucket.s3.eu-west-1.amazonaws.com"]>>),
                                        <<>>, TRUE),
                          ErrorResponse(ErrorBody("<Error>",
                                                  <<[Code |-> "AccessDenied",
                                                     Message |-> "Access Denied"]>>),
                                        <<>>, TRUE) },
                      !.signOptions = {<<>>},
                      !.clock = {}],
      [BaseEnv EXCEPT !.name = "handle-ec2",
                      !.files = IsEC2,
                      !.imds = {"up"},
                      !.requests = {},
                      !.signOptions = {[EXPIRATION_DELAY |-> "10"], [START_DATE |-> "soon"]},
                      !.clock = {}] }

\* VSIS3HandleHelper::SetEndpoint(osStr)
SetEndpointAction ==
    /\ h.exists
    /\ \E osStr \in HandleEndpoints :
        /\ h' = SetEndpoint(h, osStr)
        /\ last' = [op |-> "SetEndpoint", osStr |-> osStr]
    /\ UNCHANGED <<cache, now, env, goMapBucketsToS3Params>> /\ UNCHANGED threadVars

\* VSIS3HandleHelper::SetVirtualHosting(b)
SetVirtualHostingAction ==
    /\ h.exists
    /\ \E b \in BOOLEAN :
        /\ h' = SetVirtualHosting(h, b)
        /\ last' = [op |-> "SetVirtualHosting", b |-> b]
    /\ UNCHANGED <<cache, now, env, goMapBucketsToS3Params>> /\ UNCHANGED threadVars

\* IVSIS3LikeHandleHelper::AddQueryParameter(osKey, osValue)
AddQueryParameterAction ==
    /\ h.exists
    /\ \E kv \in HandleQueryParameters :
        /\ h' = AddQueryParameter(h, kv[1], kv[2])
        /\ last' = [op |-> "AddQueryParameter", osKey |-> kv[1], osValue |-> kv[2]]
    /\ UNCHANGED <<cache, now, env, goMapBucketsToS3Params>> /\ UNCHANGED threadVars

\* IVSIS3LikeHandleHelper::ResetQueryParameters()
ResetQueryParametersAction ==
    /\ h.exists
    /\ h' = ResetQueryParameters(h)
    /\ last' = [op |-> "ResetQueryParameters"]
    /\ UNCHANGED <<cache, now, env, goMapBucketsToS3Params>> /\ UNCHANGED threadVars

\* The owner of the handle destroys it.
DestructorAction ==
    /\ h.exists
    /\ h' = NoHandle
    /\ last' = [op |-> "~VSIS3HandleHelper", before |-> h, released |-> DestroyedHandle(h)]
    /\ UNCHANGED <<cache, now, env, goMapBucketsToS3Params>> /\ UNCHANGED threadVars

HandleInit ==
    /\ cache = EmptyCache
    /\ h = NoHandle
    /\ now = 0
    /\ env \in HandleEnvironments
    /\ last = [op |-> "Init"]
    /\ goMapBucketsToS3Params = <<>>
    /\ pc = [t \in Threads |-> "idle"]
    /\ local = [t \in Threads |-> NoLocals]
    /\ ghMutex = FreeMutex
    /\ gsMutex = 0

HandleNext ==
    \/ BuildFromURIAction
    \/ SetEndpointAction
    \/ SetVirtualHostingAction
    \/ AddQueryParameterAction
    \/ ResetQueryParametersAction
    \/ CanRestartOnErrorAction
    \/ GetSignedURLAction
    \/ GetCurlHeadersAction
    \/ DestructorAction

HandleSpec == HandleInit /\ [][HandleNext]_vars

-----------------------------------------------------------------------------
(* The assumed role of the config file, with an STS that answers in every way *)

\* A role_arn with a source profile in the config file, and an STS whose
\* AssumeRole responses are complete, absent, without an AccessKeyId or with an
\* Expiration that does not parse.
RoleEnvironments ==
    { [BaseEnv EXCEPT !.name = "role-sts",
                      !.config = HomeConfig,
                      !.files = CredentialsFile(<<"[src]">> \o Credentials("AK_src", "SK_src"))
                                @@ RoleConfig,
                      !.stsAssumeRole = {"up", "down", "nokey", "baddate"}] }

RoleInit ==
    /\ cache = EmptyCache
    /\ h = NoHandle
    /\ now = 0
    /\ env \in RoleEnvironments
    /\ last = [op |-> "Init"]
    /\ goMapBucketsToS3Params = <<>>
    /\ pc = [t \in Threads |-> "idle"]
    /\ local = [t \in Threads |-> NoLocals]
    /\ ghMutex = FreeMutex
    /\ gsMutex = 0

RoleNext ==
    \/ BuildFromURIAction
    \/ GetCurlHeadersAction
    \/ ClearCacheAction
    \/ Tick

RoleSpec == RoleInit /\ [][RoleNext]_vars

-----------------------------------------------------------------------------
(* Properties of the provider chain *)

Last(seq) == seq[Len(seq)]

Count(seq, x) == Cardinality({ i \in 1..Len(seq) : seq[i] = x })

IsPrefix(p, seq) == Len(p) <= Len(seq) /\ SubSeq(seq, 1, Len(p)) = p

\* The order in which the sources are to be consulted.
ChainOrder(e) ==
    <<SRC_NO_SIGN_REQUEST, SRC_ACCESS_KEY, SRC_CACHED_ROLE, SRC_CONFIG_FILES>>
    \o (IF EQUAL(CPLGetConfigOption(e, "CPL_AWS_WEB_IDENTITY_ENABLE", "YES"), "NO")
        THEN <<>> ELSE <<SRC_WEB_IDENTITY>>)
    \o <<SRC_EC2>>

\* The source tags a success at each source may carry.
TagsOf(src) ==
    IF src \in {SRC_NO_SIGN_REQUEST, SRC_ACCESS_KEY} THEN {REGULAR}
    ELSE IF src = SRC_CACHED_ROLE THEN {ASSUMED_ROLE}
    ELSE IF src = SRC_CONFIG_FILES THEN {REGULAR, ASSUMED_ROLE}
    ELSE IF src = SRC_WEB_IDENTITY THEN {WEB_IDENTITY}
    ELSE {EC2}

\* The value an option has for a call: the caller's, else the path's, else the
\* configuration's.
OptionOf(papszOptions, e, key) ==
    IF key \in DOMAIN papszOptions THEN papszOptions[key]
    ELSE IF key \in DOMAIN e.pathOptions THEN e.pathOptions[key]
    ELSE IF key \in DOMAIN e.config THEN e.config[key]
    ELSE ""

\* The sources are consulted in the fixed order and the call returns at the first
\* that yields credentials, with that source's tag.
C1_OrderAndFirstSuccess ==
    last.op = "BuildFromURI" =>
        LET g == last.gc
            noSign == OptionOf(<<>>, env, "AWS_NO_SIGN_REQUEST") \in {"YES", "TRUE", "ON", "1"}
            secret == OptionOf(last.papszOptions, env, "AWS_SECRET_ACCESS_KEY")
            keyId == OptionOf(last.papszOptions, env, "AWS_ACCESS_KEY_ID")
        IN /\ IsPrefix(g.consulted, ChainOrder(env))
           /\ noSign => /\ g.ret /\ g.eCredentialsSource = REGULAR
                        /\ g.osSecretAccessKey = "" /\ g.osAccessKeyId = ""
                        /\ g.osSessionToken = ""
                        /\ g.consulted = <<SRC_NO_SIGN_REQUEST>>
           /\ ~noSign /\ secret # "" /\ keyId # ""
                  => /\ g.ret /\ g.eCredentialsSource = REGULAR
                     /\ g.osSecretAccessKey = secret /\ g.osAccessKeyId = keyId
                     /\ Last(g.consulted) = SRC_ACCESS_KEY
           /\ g.ret => /\ g.eCredentialsSource \in TagsOf(Last(g.consulted))
                       /\ g.error = VSIE_None

\* C1: GetConfiguration consults the credential sources in one fixed order (no-sign,
\* static keys, cached assumed role, config files, web identity unless disabled,
\* IMDS/ECS), returns at the first that yields credentials with that source's tag,
\* consults no later source after a success, and when it fails it fails with an
\* invalid-credentials error.
C1_FixedOrderOrInvalidCredentials ==
    /\ C1_OrderAndFirstSuccess
    /\ last.op = "BuildFromURI" /\ ~last.gc.ret
           => last.gc.error = VSIE_AWSInvalidCredentials

C6_RegionPrecedence ==
    last.op = "BuildFromURI" /\ last.handle.exists =>
        LET default == OptionOf(last.papszOptions, env, "AWS_DEFAULT_REGION")
            explicit == OptionOf(last.papszOptions, env, "AWS_REGION")
            ofFile == GetConfigurationFromAWSConfigFiles(env, <<>>, NoFileParams).p.osRegion
        IN last.handle.m_osRegion =
               IF default # "" THEN default
               ELSE IF explicit # "" THEN explicit
               ELSE IF ofFile # "" THEN ofFile
               ELSE "us-east-1"

-----------------------------------------------------------------------------
(* Properties of the credential cache *)

\* The provider calls of the last operation.
CallsOf(l) ==
    IF l.op = "BuildFromURI" THEN l.gc.calls
    ELSE IF l.op = "GetCurlHeaders" THEN l.calls
    ELSE <<>>

\* The fetches of the last operation.
FetchesOf(l) ==
    IF l.op = "BuildFromURI" THEN l.gc.fetches
    ELSE IF l.op = "GetCurlHeaders" THEN l.fetches
    ELSE <<>>

\* The cache holds an access key id and the time is before its expiration less 60 s.
InWindow(key, expiration, t) == key # "" /\ t < expiration - 60

\* C2: a cached provider called with bForceRefresh = false returns credentials
\* without any fetch if and only if the cached access key id is non-empty and
\* now < expiration - 60, and then returns the cached ones; at now >= expiration - 60
\* credentials are returned only after a fetch.
C2_ReuseIffInWindow ==
    \A i \in 1..Len(CallsOf(last)) :
        LET e == CallsOf(last)[i]
            valid == InWindow(e.gosGlobalAccessKeyId, e.gnGlobalExpiration, e.now)
        IN ~e.bForceRefresh =>
               /\ (e.ret /\ e.nFetches = 0) <=> valid
               /\ valid => e.osAccessKeyId = e.gosGlobalAccessKeyId
               /\ ~valid /\ e.ret => e.nFetches >= 1

\* A provider called exactly 60 s before the expiration of the cached credentials
\* has fetched before returning.
C2_Witness ==
    \E i \in 1..Len(CallsOf(last)) :
        LET e == CallsOf(last)[i]
        IN /\ e.gosGlobalAccessKeyId # "" /\ e.now = e.gnGlobalExpiration - 60
           /\ e.ret /\ e.nFetches >= 1

C3_Step ==
    LET valid == InWindow(cache.gosGlobalAccessKeyId, cache.gnGlobalExpiration, now)
        static == \/ OptionOf(<<>>, env, "AWS_NO_SIGN_REQUEST") # ""
                  \/ OptionOf(last'.papszOptions, env, "AWS_SECRET_ACCESS_KEY") # ""
    IN /\ /\ last'.op = "BuildFromURI" /\ cache.gosRoleArn = ""
          /\ last'.gc.ret /\ last'.gc.eCredentialsSource = ASSUMED_ROLE
          => Count(last'.gc.fetches, "sts:AssumeRole") = 1
       /\ last'.op = "BuildFromURI" /\ cache.gosRoleArn # "" /\ valid /\ ~static
          => /\ last'.gc.fetches = <<>>
             /\ last'.gc.ret /\ last'.gc.eCredentialsSource = ASSUMED_ROLE
             /\ last'.gc.osSecretAccessKey = cache.gosGlobalSecretAccessKey
             /\ last'.gc.osAccessKeyId = cache.gosGlobalAccessKeyId
             /\ last'.gc.osSessionToken = cache.gosGlobalSessionToken
             /\ cache' = cache
       /\ last'.op = "GetCurlHeaders" /\ h.m_eCredentialsSource \in {ASSUMED_ROLE, EC2} /\ valid
          => /\ last'.fetches = <<>>
             /\ cache' = cache
             /\ h'.m_osSecretAccessKey = cache.gosGlobalSecretAccessKey
             /\ h'.m_osAccessKeyId = cache.gosGlobalAccessKeyId
             /\ h'.m_osSessionToken = cache.gosGlobalSessionToken
             /\ last'.auth # <<>>
             /\ last'.auth[1].sig.osSecretAccessKey = cache.gosGlobalSecretAccessKey

\* C3: while now < expiration - 60, the first request of a role_arn/source_profile
\* configuration makes exactly one STS AssumeRole call, every later BuildFromURI or
\* GetCurlHeaders makes no STS call and signs with the cached temporary credentials,
\* and GetCurlHeaders on an EC2 handle makes no IMDS fetch.
C3_OneFetchPerWindow == [][C3_Step]_vars

\* A later request of an assumed-role handle inside the window: nothing fetched,
\* signed with the credentials of the cache.
C3_Witness ==
    /\ last.op = "GetCurlHeaders" /\ h.m_eCredentialsSource = ASSUMED_ROLE
    /\ now > 0 /\ last.fetches = <<>> /\ last.auth # <<>>
    /\ cache.gosRoleArn # ""
    /\ last.auth[1].sig.osSecretAccessKey = cache.gosGlobalSecretAccessKey

C5_Step ==
    /\ last'.op = "ClearCache" => cache' = EmptyCache
    /\ last.op = "ClearCache" /\ last'.op \in {"BuildFromURI", "GetCurlHeaders"}
       => /\ \A i \in 1..Len(CallsOf(last')) :
                CallsOf(last')[i].ret => CallsOf(last')[i].nFetches >= 1
          /\ CallsOf(last') # <<>> =>
                /\ CallsOf(last')[1].gosGlobalAccessKeyId = ""
                /\ CallsOf(last')[1].gnGlobalExpiration = 0

\* C5: ClearCache erases every field of the credential cache, and in the operation
\* that follows it no provider returns credentials without having fetched.
C5_ClearCacheErasesAll == [][C5_Step]_vars

\* The request of an assumed-role handle after ClearCache: the role is gone from
\* the cache and the provider has fetched.
C5_Witness ==
    /\ last.op = "GetCurlHeaders" /\ h.m_eCredentialsSource = ASSUMED_ROLE
    /\ last.calls # <<>>
    /\ last.calls[1].gosGlobalAccessKeyId = ""
    /\ last.fetches # <<>>
    /\ cache.gosRoleArn = ""

-----------------------------------------------------------------------------
(* Properties of the handle *)

\* The name and the value of a "Name: value" header line.
HeaderName(line) == SubSeq(line, 1, FindStr(line, ": ") - 1)
HeaderValue(line) == SubSeq(line, FindStr(line, ": ") + 2, Len(line))

\* The values of the headers of the given name in a header list.
ValuesOf(headers, name) ==
    { HeaderValue(headers[i]) : i \in { j \in 1..Len(headers) : HeaderName(headers[j]) = name } }

CredentialsOf(hd) == <<hd.m_osSecretAccessKey, hd.m_osAccessKeyId, hd.m_osSessionToken>>

C7_Step ==
    last'.op = "GetCurlHeaders" =>
        /\ h.m_eCredentialsSource \in {EC2, ASSUMED_ROLE, WEB_IDENTITY} <=> last'.calls # <<>>
        /\ \A i \in 1..Len(last'.calls) : ~last'.calls[i].bForceRefresh
        /\ h.m_eCredentialsSource = REGULAR
           => /\ cache' = cache
              /\ last'.fetches = <<>>
              /\ CredentialsOf(h') = CredentialsOf(h)

\* C7: GetCurlHeaders calls a credential provider, not forced, if and only if the
\* source of the handle is EC2, ASSUMED_ROLE or WEB_IDENTITY; on a REGULAR handle it
\* calls none, leaves the cache as it is, fetches nothing and keeps the three
\* credential strings of the handle.
C7_RefreshOnlyDynamicSources == [][C7_Step]_vars

\* Headers made for a static handle while the cache holds credentials of a provider.
C7_Witness ==
    /\ last.op = "GetCurlHeaders" /\ h.m_eCredentialsSource = REGULAR
    /\ h.m_osSecretAccessKey # "" /\ last.calls = <<>>
    /\ cache.gosGlobalAccessKeyId # ""
    /\ cache.gosGlobalAccessKeyId # h.m_osAccessKeyId

\* C8: the header list always holds x-amz-date and x-amz-content-sha256; with an
\* empty secret key it holds no Authorization header; with a non-empty secret key
\* it holds exactly one, the last of the list, after x-amz-date,
\* x-amz-content-sha256, X-Amz-Security-Token and x-amz-request-payer.
C8_AuthorizationHeader ==
    last.op = "GetCurlHeaders" =>
        LET hs == last.headers
            names == [i \in 1..Len(hs) |-> HeaderName(hs[i])]
            auths == { i \in 1..Len(hs) : names[i] = "Authorization" }
        IN /\ Len(hs) >= 2 /\ names[1] = "x-amz-date" /\ names[2] = "x-amz-content-sha256"
           /\ h.m_osSecretAccessKey = "" => auths = {}
           /\ h.m_osSecretAccessKey # ""
              => /\ auths = {Len(hs)}
                 /\ \A i \in 1..(Len(hs) - 1) :
                        names[i] \in {"x-amz-date", "x-amz-content-sha256",
                                      "X-Amz-Security-Token", "x-amz-request-payer"}
                 /\ (h.m_osSessionToken # "") = (ValuesOf(hs, "X-Amz-Security-Token") # {})
                 /\ (h.m_osRequestPayer # "") = (ValuesOf(hs, "x-amz-request-payer") # {})

\* A signed request with a session token and a request payer: five headers.
C8_Witness ==
    /\ last.op = "GetCurlHeaders" /\ h.m_osSecretAccessKey # ""
    /\ h.m_osSessionToken # "" /\ h.m_osRequestPayer # ""
    /\ Len(last.headers) = 5

\* C9: the headers agree with what was signed: the x-amz-date header is the
\* timestamp of the string to sign, the X-Amz-Security-Token header and the key id
\* of the Authorization header are those of the handle after the refresh, of the
\* same credential set as the secret key that signed; a provider that returned
\* credentials during the call returned the ones signed with.
C9_HeadersAgreeWithSignature ==
    last.op = "GetCurlHeaders" /\ last.auth # <<>> =>
        LET a == last.auth[1]
            hs == last.headers
        IN /\ ValuesOf(hs, "x-amz-date") = {a.sig.osTimestamp}
           /\ StartsWith(a.sig.osStringToSign,
                         "AWS4-HMAC-SHA256\n" \o a.sig.osTimestamp \o "\n")
           /\ a.sig.osSecretAccessKey = h.m_osSecretAccessKey
           /\ a.osAccessKeyId = h.m_osAccessKeyId
           /\ a.sig.osAccessToken = h.m_osSessionToken
           /\ ValuesOf(hs, "X-Amz-Security-Token")
                  = IF h.m_osSessionToken = "" THEN {} ELSE {h.m_osSessionToken}
           /\ ValuesOf(hs, "Authorization") = {a.osAuthorization}
           /\ StartsWith(a.osAuthorization,
                         "AWS4-HMAC-SHA256 Credential=" \o h.m_osAccessKeyId \o "/")
           /\ CredentialSetOf(a.osAccessKeyId) = CredentialSetOf(a.sig.osSecretAccessKey)
           /\ a.sig.osAccessToken # ""
              => CredentialSetOf(a.sig.osAccessToken) = CredentialSetOf(a.sig.osSecretAccessKey)
           /\ last.calls # <<>> /\ Last(last.calls).ret
              => a.osAccessKeyId = Last(last.calls).osAccessKeyId

\* Headers signed with credentials fetched during the call, other than the ones
\* the cache held when it began.
C9_Witness ==
    /\ last.op = "GetCurlHeaders" /\ last.auth # <<>>
    /\ last.fetches # <<>> /\ last.calls # <<>>
    /\ Last(last.calls).ret
    /\ last.calls[1].gosGlobalAccessKeyId # ""
    /\ last.calls[1].gosGlobalAccessKeyId # last.auth[1].osAccessKeyId
    /\ ValuesOf(last.headers, "X-Amz-Security-Token") # {}

C10_Step ==
    last'.op = "CanRestartOnError" /\ last'.ret
        => <<h'.m_osRegion, h'.m_osEndpoint, h'.m_bUseVirtualHosting>>
               # <<h.m_osRegion, h.m_osEndpoint, h.m_bUseVirtualHosting>>

\* The statement of C10: every call of CanRestartOnError that returns true has
\* changed the region, the endpoint or the hosting style of the handle.
C10_RestartChangesHandle == [][C10_Step]_vars

-----------------------------------------------------------------------------
(* Properties of CanRestartOnError *)

\* The element of the given name of the error body of a CanRestartOnError call:
\* <<value>>, or <<>> when the body has no tree or no such element.
ElementOf(body, name) ==
    IF body.tree # <<>> /\ name \in DOMAIN body.tree[1] THEN <<body.tree[1][name]>> ELSE <<>>

C11_Step ==
    last'.op = "CanRestartOnError"
    /\ ElementOf(last'.body, "Code") = <<"AuthorizationHeaderMalformed">>
        => IF ElementOf(last'.body, "Region") # <<>>
           THEN /\ last'.ret
                /\ h' = [h EXCEPT !.m_osRegion = ElementOf(last'.body, "Region")[1]]
           ELSE /\ ~last'.ret
                /\ h' = h

\* C11: on an error body of Code AuthorizationHeaderMalformed, CanRestartOnError
\* with a Region element sets the region of the handle to it, returns true and
\* leaves every other member (endpoint, hosting style, URL) as it was; without a
\* Region element it returns false and leaves the handle as it was.
C11_MalformedAuthorizationSetsRegion == [][C11_Step]_vars

\* A handle of region us-east-1 moved to eu-west-1 by such a response.
C11_Witness ==
    /\ last.op = "CanRestartOnError" /\ last.ret
    /\ ElementOf(last.body, "Code") = <<"AuthorizationHeaderMalformed">>
    /\ ElementOf(last.body, "Region") = <<"eu-west-1">>
    /\ h.m_osRegion = "eu-west-1"

IsRedirect(body) ==
    ElementOf(body, "Code") \in {<<"PermanentRedirect">>, <<"TemporaryRedirect">>}

\* The headers of the response expose x-amz-bucket-region.
ExposesBucketRegion(pszHeaders) ==
    pszHeaders # <<>> /\ FindStr(pszHeaders[1], "x-amz-bucket-region: ") # 0

\* The endpoint a redirect suggests is <bucket>.<rest>: <<rest>>, else <<>>.
RestOfEndpoint(body, osBucket) ==
    LET ep == ElementOf(body, "Endpoint")
    IN IF ep # <<>> /\ Len(ep[1]) > Len(osBucket)
          /\ SubSeq(ep[1], 1, Len(osBucket) + 1) = osBucket \o "."
       THEN <<SubSeq(ep[1], Len(osBucket) + 2, Len(ep[1]))>>
       ELSE <<>>

C12_Step ==
    (/\ last'.op = "CanRestartOnError"
     /\ IsRedirect(last'.body)
     /\ ~h.m_bUseVirtualHosting /\ h.m_osBucket # ""
     /\ RestOfEndpoint(last'.body, h.m_osBucket) # <<>>
     /\ ~(FindChar(h.m_osBucket, ".") # 0 /\ ExposesBucketRegion(last'.pszHeaders)))
        => LET rest == RestOfEndpoint(last'.body, h.m_osBucket)[1]
           IN /\ last'.ret
              /\ h' = [h EXCEPT !.m_bUseVirtualHosting = TRUE,
                                !.m_osEndpoint = rest,
                                !.m_osURL = (IF h.m_bUseHTTPS THEN "https" ELSE "http")
                                            \o "://" \o h.m_osBucket \o "." \o rest
                                            \o "/" \o h.m_osObjectKey]

\* C12: on PermanentRedirect or TemporaryRedirect whose Endpoint is <bucket>.<rest>,
\* received by a path-style handle (the case of a dotted bucket with an
\* x-amz-bucket-region header apart), CanRestartOnError returns true and leaves the
\* handle with virtual hosting, the endpoint <rest> and the URL
\* scheme://bucket.rest/key, every other member as it was.
C12_RedirectFlipsToVirtualHosting == [][C12_Step]_vars

\* A path-style handle of a dotted bucket flipped to virtual hosting.
C12_Witness ==
    /\ last.op = "CanRestartOnError" /\ last.ret /\ IsRedirect(last.body)
    /\ ~ExposesBucketRegion(last.pszHeaders)
    /\ h.m_osBucket = "my.bucket" /\ h.m_bUseVirtualHosting
    /\ h.m_osEndpoint = "s3.amazonaws.com"
    /\ h.m_osURL = "https://my.bucket.s3.amazonaws.com/key"

\* C13: *pbUpdateMap is false after a call of CanRestartOnError if and only if the
\* Code of the body is TemporaryRedirect and the call returned true; after a
\* PermanentRedirect or a change of region that returned true it is true.
C13_UpdateMapUnlessTemporary ==
    last.op = "CanRestartOnError" =>
        /\ ~last.bUpdateMap
              <=> (ElementOf(last.body, "Code") = <<"TemporaryRedirect">> /\ last.ret)
        /\ last.ret /\ ElementOf(last.body, "Code") \in {<<"PermanentRedirect">>,
                                                         <<"AuthorizationHeaderMalformed">>}
              => last.bUpdateMap

\* A temporary redirect of a dotted bucket to the endpoint of its region, which
\* is not to be propagated.
C13_Witness ==
    /\ last.op = "CanRestartOnError" /\ last.ret /\ ~last.bUpdateMap
    /\ ElementOf(last.body, "Code") = <<"TemporaryRedirect">>
    /\ h.m_osEndpoint = "s3.eu-west-1.amazonaws.com" /\ h.m_osRegion = "eu-west-1"
    /\ h.m_osBucket = "my.bucket"

EndsWith(s, suffix) ==
    Len(suffix) <= Len(s) /\ SubSeq(s, Len(s) - Len(suffix) + 1, Len(s)) = suffix

IsXML(body) == StartsWith(body.text, "<?xml") \/ StartsWith(body.text, "<Error>")

\* The kind of error the spec gives for a Code.
KindOfCode ==
    [AccessDenied |-> VSIE_AWSAccessDenied, NoSuchBucket |-> VSIE_AWSBucketNotFound,
     NoSuchKey |-> VSIE_AWSObjectNotFound,
     SignatureDoesNotMatch |-> VSIE_AWSSignatureDoesNotMatch]

KindOf(code) == IF code \in DOMAIN KindOfCode THEN KindOfCode[code] ELSE VSIE_AWSError

\* The kind given for a Code compared without regard to case.
KindOfIgnoringCase(code) ==
    IF \E k \in DOMAIN KindOfCode : ToLower(k) = ToLower(code)
    THEN KindOfCode[CHOOSE k \in DOMAIN KindOfCode : ToLower(k) = ToLower(code)]
    ELSE VSIE_AWSError

\* The Codes on which CanRestartOnError may ask for a retry.
RestartCodes == {"AuthorizationHeaderMalformed", "PermanentRedirect", "TemporaryRedirect"}

\* The statement of C14: a body that is not XML, or an <Error> of a Code that is
\* not one of the restart codes, makes CanRestartOnError return false and, with
\* bSetError, raise the error of the kind of the Code (AWSAccessDenied,
\* AWSBucketNotFound, AWSObjectNotFound, AWSSignatureDoesNotMatch, else AWSError)
\* with the message of the server.
C14_ErrorOfMatchingKind ==
    last.op = "CanRestartOnError" =>
        LET code == ElementOf(last.body, "Code")
            msg == ElementOf(last.body, "Message")
        IN /\ ~IsXML(last.body)
              => /\ ~last.ret
                 /\ last.bSetError => /\ last.error = VSIE_AWSError
                                      /\ EndsWith(last.message, last.body.text)
           /\ IsXML(last.body) /\ code # <<>> /\ code[1] \notin RestartCodes
              => /\ ~last.ret
                 /\ last.bSetError => /\ last.error = KindOf(code[1])
                                      /\ msg # <<>> => last.message = msg[1]

\* C14 (amended): a body that is not XML, or an <Error> of a Code that is not,
\* case ignored, one of the restart codes, makes CanRestartOnError return false
\* and, with bSetError, raise one error: AWSError with the whole body when the
\* body is not XML or has no Message element; else the error with the Message, of
\* the kind of the Code compared without regard to case (AWSAccessDenied,
\* AWSBucketNotFound, AWSObjectNotFound, AWSSignatureDoesNotMatch, else AWSError).
C14_ErrorOfKindWhenMessage ==
    last.op = "CanRestartOnError" =>
        LET code == ElementOf(last.body, "Code")
            msg == ElementOf(last.body, "Message")
        IN /\ ~IsXML(last.body)
              => /\ ~last.ret
                 /\ last.bSetError => /\ last.error = VSIE_AWSError
                                      /\ EndsWith(last.message, last.body.text)
           /\ IsXML(last.body) /\ code # <<>>
                /\ (\A k \in RestartCodes : ToLower(k) # ToLower(code[1]))
              => /\ ~last.ret
                 /\ last.bSetError /\ msg = <<>>
                      => /\ last.error = VSIE_AWSError
                         /\ last.message = last.body.text
                 /\ last.bSetError /\ msg # <<>>
                      => /\ last.error = KindOfIgnoringCase(code[1])
                         /\ last.message = msg[1]

\* NoSuchKey with a Message, reported as AWSObjectNotFound with that message.
C14_Witness ==
    /\ last.op = "CanRestartOnError" /\ ~last.ret /\ last.bSetError
    /\ ElementOf(last.body, "Code") = <<"NoSuchKey">>
    /\ last.error = VSIE_AWSObjectNotFound /\ last.message = "No such key"

-----------------------------------------------------------------------------
(* Properties of the per-bucket parameters *)

\* The region, endpoint and hosting style of a handle or of stored parameters.
ParamsOf(x) == <<x.m_osRegion, x.m_osEndpoint, x.m_bUseVirtualHosting>>

C15_Step ==
    /\ last'.op = "UpdateMapFromHandle"
          => /\ h.m_osBucket \in DOMAIN goMapBucketsToS3Params'
             /\ ParamsOf(goMapBucketsToS3Params'[h.m_osBucket]) = ParamsOf(h)
             /\ \A b \in DOMAIN goMapBucketsToS3Params' \ {h.m_osBucket} :
                    /\ b \in DOMAIN goMapBucketsToS3Params
                    /\ goMapBucketsToS3Params'[b] = goMapBucketsToS3Params[b]
             /\ DOMAIN goMapBucketsToS3Params \subseteq DOMAIN goMapBucketsToS3Params'
    /\ last'.op = "UpdateHandleFromMap"
          => IF h.m_osBucket \in DOMAIN goMapBucketsToS3Params
             THEN ParamsOf(h') = ParamsOf(goMapBucketsToS3Params[h.m_osBucket])
             ELSE h' = h
    /\ last'.op = "VSIS3UpdateParams::ClearCache" => DOMAIN goMapBucketsToS3Params' = {}
    /\ last'.op \notin {"UpdateMapFromHandle", "VSIS3UpdateParams::ClearCache"}
          => goMapBucketsToS3Params' = goMapBucketsToS3Params

\* C15: UpdateMapFromHandle stores the region, endpoint and hosting style of the
\* handle for its bucket, replacing what was stored for that bucket and nothing
\* else; UpdateHandleFromMap gives a handle the region, endpoint and hosting style
\* stored for its bucket and leaves a handle of a bucket without entry as it is;
\* VSIS3UpdateParams::ClearCache empties the map; no other operation changes it.
C15_BucketParamsRoundTrip == [][C15_Step]_vars

\* A new handle of a bucket took the region stored for it by an adapted handle,
\* while another bucket has an entry of its own.
C15_Witness ==
    /\ last.op = "UpdateHandleFromMap"
    /\ h.m_osBucket = "bucket" /\ h.m_osObjectKey = "other"
    /\ h.m_osRegion = "eu-west-1"
    /\ h.m_osBucket \in DOMAIN goMapBucketsToS3Params
    /\ "my.bucket" \in DOMAIN goMapBucketsToS3Params
    /\ goMapBucketsToS3Params["my.bucket"].m_osEndpoint = "s3.eu-west-1.amazonaws.com"

-----------------------------------------------------------------------------
(* Properties of the construction of a handle *)

\* The URL encoding, '/' kept, of the object keys the callers use.
EncodedKey ==
    [k \in {"", "key", "other", "obj"} |-> k]
    @@ ("a b/c+d~e_f-g.tif" :> "a%20b/c%2Bd~e_f-g.tif")

\* C16: the URL of a handle built by BuildFromURI is <scheme>://<endpoint> when
\* the bucket is empty, <scheme>://<bucket>.<endpoint>/<encoded key> under virtual
\* hosting and <scheme>://<endpoint>/<bucket>/<encoded key> under path style, the
\* scheme being https iff m_bUseHTTPS; the encoded key keeps '/' and the
\* unreserved characters and has every other byte percent-encoded.
C16_URLForm ==
    last.op = "BuildFromURI" /\ last.handle.exists =>
        LET hd == last.handle
            scheme == IF hd.m_bUseHTTPS THEN "https" ELSE "http"
        IN /\ hd.m_osObjectKey \in DOMAIN EncodedKey
           /\ hd.m_osURL =
                IF hd.m_osBucket = "" THEN scheme \o "://" \o hd.m_osEndpoint
                ELSE IF hd.m_bUseVirtualHosting
                THEN scheme \o "://" \o hd.m_osBucket \o "." \o hd.m_osEndpoint \o "/"
                     \o EncodedKey[hd.m_osObjectKey]
                ELSE scheme \o "://" \o hd.m_osEndpoint \o "/" \o hd.m_osBucket \o "/"
                     \o EncodedKey[hd.m_osObjectKey]
           /\ hd.m_bUseHTTPS <=> OptionOf(<<>>, env, "AWS_HTTPS") \notin {"NO"}

\* A path-style http URL whose key needed encoding.
C16_Witness ==
    /\ last.op = "BuildFromURI" /\ last.handle.exists
    /\ last.handle.m_osURL = "http://s3.amazonaws.com/bucket/a%20b/c%2Bd~e_f-g.tif"
    /\ last.handle.m_osObjectKey = "a b/c+d~e_f-g.tif"

HasDot(s) == \E i \in 1..Len(s) : SubSeq(s, i, i) = "."

\* The AWS_VIRTUAL_HOSTING option in force for a call: the caller's option, else
\* the path-specific or configuration option, else <<>> when none is given.
ExplicitVirtualHosting(papszOptions) ==
    IF "AWS_VIRTUAL_HOSTING" \in DOMAIN papszOptions
    THEN <<papszOptions["AWS_VIRTUAL_HOSTING"]>>
    ELSE IF "AWS_VIRTUAL_HOSTING" \in DOMAIN env.pathOptions
    THEN <<env.pathOptions["AWS_VIRTUAL_HOSTING"]>>
    ELSE IF "AWS_VIRTUAL_HOSTING" \in DOMAIN env.config
    THEN <<env.config["AWS_VIRTUAL_HOSTING"]>>
    ELSE <<>>

\* C17: a handle built by BuildFromURI with no AWS_VIRTUAL_HOSTING option uses
\* virtual hosting iff its bucket name has no '.'; with the option given (the
\* caller's first, then the path-specific one) the option decides, whatever the
\* bucket name.
C17_VirtualHostingDefaultAndOverride ==
    last.op = "BuildFromURI" /\ last.handle.exists =>
        LET opt == ExplicitVirtualHosting(last.papszOptions)
        IN last.handle.m_bUseVirtualHosting =
              IF opt = <<>> THEN ~HasDot(last.handle.m_osBucket)
              ELSE opt[1] \notin {"FALSE", "NO"}

\* A dotted bucket put under virtual hosting by the caller's option although the
\* path-specific option says NO.
C17_Witness ==
    /\ last.op = "BuildFromURI" /\ last.handle.exists
    /\ last.handle.m_osBucket = "my.bucket"
    /\ last.papszOptions = [AWS_VIRTUAL_HOSTING |-> "TRUE"]
    /\ "AWS_VIRTUAL_HOSTING" \in DOMAIN env.pathOptions
    /\ last.handle.m_bUseVirtualHosting

HasSlash(s) == \E i \in 1..Len(s) : SubSeq(s, i, i) = "/"

\* C18: BuildFromURI never returns a handle whose bucket name is empty, whatever
\* the URI (the empty URI and the URIs beginning with '/' included); and, once
\* credentials are resolved, a URI without '/' yields no handle when
\* bAllowNoObject is false and a handle with an empty key when it is true.
C18_NoEmptyBucket ==
    last.op = "BuildFromURI" =>
        /\ last.handle.exists => last.handle.m_osBucket # ""
        /\ (last.gc.ret /\ ~HasSlash(last.pszURI)) =>
              IF last.bAllowNoObject
              THEN last.handle.exists /\ last.handle.m_osObjectKey = ""
              ELSE ~last.handle.exists

\* The part of C18 about the URIs that name a bucket and have no '/': refused when
\* bAllowNoObject is false, accepted with an empty key when it is true.
C18_NoObjectPart ==
    (last.op = "BuildFromURI" /\ last.gc.ret /\ last.pszURI # "" /\ ~HasSlash(last.pszURI)) =>
        IF last.bAllowNoObject
        THEN last.handle.exists /\ last.handle.m_osBucket = last.pszURI
             /\ last.handle.m_osObjectKey = ""
        ELSE ~last.handle.exists

\* The URI "/key" accepted with an empty bucket name.
C18_EmptyBucketAccepted ==
    /\ last.op = "BuildFromURI" /\ last.pszURI = "/key"
    /\ last.handle.exists /\ last.handle.m_osBucket = ""

-----------------------------------------------------------------------------
(* Properties of the presigned URL *)

\* The positions of the character ch in s.
PositionsOf(s, ch) == { i \in 1..Len(s) : SubSeq(s, i, i) = ch }

Least(S) == CHOOSE i \in S : \A j \in S : i <= j

\* The query string of a URL: what follows its first '?', "" when it has none.
QueryOf(url) ==
    IF PositionsOf(url, "?") = {} THEN ""
    ELSE SubSeq(url, Least(PositionsOf(url, "?")) + 1, Len(url))

\* The parameters of a query string, "name=value" each, in the order of the text.
ParametersOf(qs) ==
    LET amps == PositionsOf(qs, "&")
        starts == {1} \cup { i + 1 : i \in amps }
        ends == { i - 1 : i \in amps } \cup {Len(qs)}
        start(k) == CHOOSE i \in starts : Cardinality({ j \in starts : j < i }) = k - 1
    IN IF qs = "" THEN <<>>
       ELSE [k \in 1..Cardinality(starts) |->
                SubSeq(qs, start(k), Least({ j \in ends : j >= start(k) - 1 }))]

NameOf(parameter) ==
    IF PositionsOf(parameter, "=") = {} THEN parameter
    ELSE SubSeq(parameter, 1, Least(PositionsOf(parameter, "=")) - 1)

\* The names of the parameters of the URL the last GetSignedURL returned.
SignedURLNames == [k \in DOMAIN ParametersOf(QueryOf(last.ret)) |-> NameOf(ParametersOf(QueryOf(last.ret))[k])]

PresignNames(osSessionToken) ==
    {"X-Amz-Algorithm", "X-Amz-Credential", "X-Amz-Date", "X-Amz-Expires",
     "X-Amz-SignedHeaders", "X-Amz-Signature"}
    \cup (IF osSessionToken # "" THEN {"X-Amz-Security-Token"} ELSE {})

\* The URL carries each of the presigning parameters once, the security token iff
\* the handle has a session token, and X-Amz-SignedHeaders=host.
CarriesPresignParameters ==
    /\ { SignedURLNames[k] : k \in DOMAIN SignedURLNames } = PresignNames(h.m_osSessionToken)
    /\ Len(SignedURLNames) = Cardinality(PresignNames(h.m_osSessionToken))
    /\ \E k \in DOMAIN SignedURLNames :
           ParametersOf(QueryOf(last.ret))[k] = "X-Amz-SignedHeaders=host"

ValueIn(url, name) ==
    LET ps == ParametersOf(QueryOf(url))
        hits == { k \in DOMAIN ps : NameOf(ps[k]) = name }
    IN IF hits = {} THEN <<>>
       ELSE <<SubSeq(ps[Least(hits)], Len(name) + 2, Len(ps[Least(hits)]))>>

AdvertisedValue(name) == ValueIn(last.ret, name)

\* C20: whatever the handle (request payer and session token included), the
\* signature of a presigned URL is computed over the signed-headers list "host"
\* and the payload hash UNSIGNED-PAYLOAD: the list that is signed is the one the
\* URL advertises in X-Amz-SignedHeaders.
C20_SignsWhatItAdvertises ==
    (last.op = "GetSignedURL" /\ last.signed # <<>>) =>
        /\ last.signed[1].osSignedHeaders = "host"
        /\ AdvertisedValue("X-Amz-SignedHeaders") = <<last.signed[1].osSignedHeaders>>
        /\ EndsWith(last.signed[1].osCanonicalRequest, "\nhost\nUNSIGNED-PAYLOAD")

\* The part of C20 that holds of every handle: the payload hash that is signed is
\* UNSIGNED-PAYLOAD and the session token is not among the signed headers; and the
\* signed list is "host" when the handle has no request payer.
C20_UnsignedPayload ==
    (last.op = "GetSignedURL" /\ last.signed # <<>>) =>
        /\ EndsWith(last.signed[1].osCanonicalRequest, "\nUNSIGNED-PAYLOAD")
        /\ last.signed[1].osSignedHeaders =
              IF h.m_osRequestPayer = "" THEN "host" ELSE "host;x-amz-request-payer"

\* A presigned URL that advertises "host" while the request payer header was
\* signed as well.
C20_RequestPayerSigned ==
    /\ last.op = "GetSignedURL" /\ last.signed # <<>>
    /\ h.m_osRequestPayer = "requester"
    /\ last.signed[1].osSignedHeaders = "host;x-amz-request-payer"
    /\ AdvertisedValue("X-Amz-SignedHeaders") = <<"host">>

\* The unix time of the START_DATE texts the callers give, and the seconds of
\* their EXPIRATION_DELAY texts.
StartDateOf == "19700101T000010Z" :> 10
DelayOf == "10" :> 10

\* start_date + EXPIRATION_DELAY of a call of GetSignedURL at the instant t.
PresignedWindowEnd(papszOptions, t) ==
    (IF "START_DATE" \in DOMAIN papszOptions THEN StartDateOf[papszOptions["START_DATE"]] ELSE t)
    + (IF "EXPIRATION_DELAY" \in DOMAIN papszOptions
       THEN DelayOf[papszOptions["EXPIRATION_DELAY"]] ELSE 3600)

\* The access key id the URL names in X-Amz-Credential.
CredentialKeyId(url) ==
    LET v == ValueIn(url, "X-Amz-Credential")[1]
    IN SubSeq(v, 1, Least(PositionsOf(v, "%")) - 1)

C21_Step ==
    (last'.op = "GetSignedURL" /\ last'.ret # "") =>
        LET mustRefresh ==
                /\ h.m_eCredentialsSource # REGULAR
                /\ PresignedWindowEnd(last'.papszOptions, now) >= cache.gnGlobalExpiration - 60
        IN /\ mustRefresh <=> (last'.calls # <<>>)
           /\ mustRefresh => last'.calls[1].bForceRefresh
           /\ ~mustRefresh =>
                 /\ last'.fetches = <<>> /\ cache' = cache
                 /\ h'.m_osAccessKeyId = h.m_osAccessKeyId
                 /\ h'.m_osSecretAccessKey = h.m_osSecretAccessKey
                 /\ h'.m_osSessionToken = h.m_osSessionToken
           /\ CredentialKeyId(last'.ret) = h'.m_osAccessKeyId
           /\ last'.signed[1].osSecretAccessKey = h'.m_osSecretAccessKey

\* C21: GetSignedURL force-refreshes the credentials, before X-Amz-Credential and
\* the signature are computed, iff the handle's source is not REGULAR and
\* start_date + EXPIRATION_DELAY >= cached expiration - 60; otherwise it fetches
\* nothing and signs with the credentials the handle has.
C21_RefreshIffWindowOutlivesCredentials == [][C21_Step]_vars

\* A presigned window that ends exactly 60 s before the credentials expire: the
\* refresh was forced and the URL names the new access key.
C21_Witness ==
    /\ last.op = "GetSignedURL" /\ last.ret # ""
    /\ last.calls # <<>> /\ last.fetches # <<>>
    /\ last.calls[1].now + 10 = last.calls[1].gnGlobalExpiration - 60
    /\ "EXPIRATION_DELAY" \in DOMAIN last.papszOptions
    /\ last.before.m_osAccessKeyId # h.m_osAccessKeyId
    /\ CredentialKeyId(last.ret) = h.m_osAccessKeyId

-----------------------------------------------------------------------------
(* Properties of the config files *)

CredentialKeys == {"aws_access_key_id", "aws_secret_access_key", "aws_session_token"}

\* What the two files of each process define for the selected profile.
DefinedInFiles ==
    [name \in {"files-conflict"}, pszProfile \in {<<>>} |->
        [credentials |-> [aws_access_key_id |-> "AK_file", aws_secret_access_key |-> "SK_file",
                          aws_session_token |-> "TK_file"],
         config |-> [aws_access_key_id |-> "AK_config", aws_secret_access_key |-> "SK_config",
                     aws_session_token |-> "TK_config"]]]
    @@ [name \in {"files-agree"}, pszProfile \in {<<>>, <<"default">>} |->
        [credentials |-> [aws_access_key_id |-> "AK_file", aws_secret_access_key |-> "SK_file"],
         config |-> [aws_access_key_id |-> "AK_file", aws_secret_access_key |-> "SK_file",
                     aws_session_token |-> "TK_config"]]]
    @@ [name \in {"files-config-only"}, pszProfile \in {<<>>} |->
        [credentials |-> <<>>,
         config |-> [aws_access_key_id |-> "AK_config", aws_secret_access_key |-> "SK_config",
                     aws_session_token |-> "TK_config"]]]
    @@ [name \in {"files-profile"}, pszProfile \in {<<>>} |->
        [credentials |-> [aws_access_key_id |-> "AK_foo"],
         config |-> [aws_access_key_id |-> "AK_foo_config",
                     aws_secret_access_key |-> "SK_foo_config"]]]
    @@ [name \in {"files-profile"}, pszProfile \in {<<"default">>} |->
        [credentials |-> [aws_access_key_id |-> "AK_file", aws_secret_access_key |-> "SK_file"],
         config |-> [aws_access_key_id |-> "AK_config"]]]

\* The value GetConfigurationFromAWSConfigFiles returned for a key.
ReturnedFor(key) ==
    IF key = "aws_access_key_id" THEN last.p.osAccessKeyId
    ELSE IF key = "aws_secret_access_key" THEN last.p.osSecretAccessKey
    ELSE last.p.osSessionToken

WarningNamingBothFiles(key) ==
    key \o " defined in both /home/u/.aws/credentials and /home/u/.aws/config."
    \o " The one of /home/u/.aws/credentials will be used"

\* C22: for each of aws_access_key_id, aws_secret_access_key and
\* aws_session_token, GetConfigurationFromAWSConfigFiles returns the value of the
\* credentials file when both files define the key for the selected profile, and
\* a warning naming both files is emitted when the two values differ; a key only
\* the config file defines is returned with the config file's value.
C22_CredentialsFileWins ==
    last.op = "GetConfigurationFromAWSConfigFiles" =>
        LET d == DefinedInFiles[env.name, last.pszProfile]
        IN \A key \in CredentialKeys :
              IF key \in DOMAIN d.credentials
              THEN /\ ReturnedFor(key) = d.credentials[key]
                   /\ (key \in DOMAIN d.config /\ d.config[key] # d.credentials[key])
                         => \E i \in DOMAIN last.p.warnings :
                                last.p.warnings[i] = WarningNamingBothFiles(key)
              ELSE IF key \in DOMAIN d.config THEN ReturnedFor(key) = d.config[key]
              ELSE ReturnedFor(key) = ""

\* Three conflicts: the values of the credentials file are returned, with three
\* warnings.
C22_Witness ==
    /\ last.op = "GetConfigurationFromAWSConfigFiles"
    /\ env.name = "files-conflict"
    /\ last.p.osAccessKeyId = "AK_file" /\ last.p.osSessionToken = "TK_file"
    /\ Len(last.p.warnings) = 3

-----------------------------------------------------------------------------
(* Properties of the canonical headers *)

\* The lists that hold the elements of s in another order.
PermutationsOf(s) == { [i \in 1..Len(s) |-> s[p[i]]] : p \in Permutations(1..Len(s)) }

\* What the signer makes of the last request when its headers come in the order
\* psExistingHeaders: the canonical request and the signed headers list.
SignedWith(psExistingHeaders) ==
    LET Of(auth) == <<auth.sig.osCanonicalRequest, auth.sig.osSignedHeaders>>
    IN Of(SignedHeaders(h, now, env, last.request.osVerb, psExistingHeaders,
                        last.request.data).auth[1])

\* The header names, lowercased, of a list of headers.
LowerNames(psExistingHeaders) ==
    [i \in DOMAIN psExistingHeaders |->
        ToLower(SubSeq(psExistingHeaders[i], 1, FindChar(psExistingHeaders[i], ":") - 1))]

NamesDifferBeyondCase(psExistingHeaders) ==
    \A i, j \in DOMAIN psExistingHeaders :
        i # j => LowerNames(psExistingHeaders)[i] # LowerNames(psExistingHeaders)[j]

\* C23: whatever the order of the existing headers of a request (two headers
\* whose names are equal up to letter case included), the signer produces the
\* same canonical headers, byte for byte, and the same signed headers list.
C23_CanonicalHeadersIgnoreOrder ==
    (last.op = "GetCurlHeaders" /\ last.auth # <<>>) =>
        \A perm \in PermutationsOf(last.request.psExistingHeaders) :
            SignedWith(perm) = <<last.auth[1].sig.osCanonicalRequest, last.auth[1].sig.osSignedHeaders>>

\* The part of C23 that holds: the order of the existing headers does not matter
\* when no two of them have names equal up to letter case.
C23_DistinctNamesIgnoreOrder ==
    (/\ last.op = "GetCurlHeaders" /\ last.auth # <<>>
     /\ NamesDifferBeyondCase(last.request.psExistingHeaders)) =>
        \A perm \in PermutationsOf(last.request.psExistingHeaders) :
            SignedWith(perm) = <<last.auth[1].sig.osCanonicalRequest, last.auth[1].sig.osSignedHeaders>>

\* Three headers of distinct names signed in sorted order, lowercased and trimmed.
C23_SortedLowercasedTrimmed ==
    /\ last.op = "GetCurlHeaders" /\ last.auth # <<>>
    /\ Len(last.request.psExistingHeaders) = 3
    /\ last.auth[1].sig.osSignedHeaders
         = "content-md5;host;x-amz-content-sha256;x-amz-date;x-amz-meta-a;x-amz-meta-b"
    /\ FindStr(last.auth[1].sig.osCanonicalRequest, "\nx-amz-meta-a:1\nx-amz-meta-b:2\n") # 0

-----------------------------------------------------------------------------
(* Properties of the URL encoding *)

UnreservedSet == "ABCDEFGHIJKLMNOPQRSTUVWXYZabcdefghijklmnopqrstuvwxyz0123456789_-~."

OnlyUnreserved(s) == \A i \in 1..Len(s) : PositionsOf(UnreservedSet, SubSeq(s, i, i)) # {}

\* The value of an uppercase hexadecimal digit, -1 for any other character.
UpperHexValue(ch) ==
    IF PositionsOf("0123456789ABCDEF", ch) = {} THEN -1
    ELSE Least(PositionsOf("0123456789ABCDEF", ch)) - 1

\* The encodings of some texts, '/' kept and '/' encoded.
KnownEncodings ==
    [osURL \in {" "}, b \in BOOLEAN |-> "%20"]
    @@ [osURL \in {"+"}, b \in BOOLEAN |-> "%2B"]
    @@ [osURL \in {"%"}, b \in BOOLEAN |-> "%25"]
    @@ [osURL \in {"="}, b \in BOOLEAN |-> "%3D"]
    @@ [osURL \in {"{"}, b \in BOOLEAN |-> "%7B"]
    @@ [osURL \in {"a b/c+d~e_f-g.tif"}, b \in BOOLEAN |->
           IF b THEN "a%20b%2Fc%2Bd~e_f-g.tif" ELSE "a%20b/c%2Bd~e_f-g.tif"]
    @@ [osURL \in {"100%/=&?"}, b \in BOOLEAN |->
           IF b THEN "100%25%2F%3D%26%3F" ELSE "100%25/%3D%26%3F"]

\* C24: CPLAWSURLEncode leaves the unreserved bytes (A-Z a-z 0-9 _ - ~ .) as they
\* are, so that encoding a text of unreserved bytes again changes nothing; any
\* other byte but '/' becomes '%' and the two uppercase hexadecimal digits of
\* the byte; '/' becomes %2F iff bEncodeSlash, and stays '/' otherwise.
C24_URLEncodingLaw ==
    last.op = "CPLAWSURLEncode" =>
        /\ OnlyUnreserved(last.osURL) =>
              /\ last.ret = last.osURL
              /\ CPLAWSURLEncode(last.ret, last.bEncodeSlash) = last.ret
        /\ last.osURL = "/" => last.ret = IF last.bEncodeSlash THEN "%2F" ELSE "/"
        /\ (Len(last.osURL) = 1 /\ ~OnlyUnreserved(last.osURL) /\ last.osURL # "/") =>
              /\ Len(last.ret) = 3 /\ SubSeq(last.ret, 1, 1) = "%"
              /\ UpperHexValue(SubSeq(last.ret, 2, 2)) >= 0
              /\ UpperHexValue(SubSeq(last.ret, 3, 3)) >= 0
              /\ UpperHexValue(SubSeq(last.ret, 2, 2)) * 16 + UpperHexValue(SubSeq(last.ret, 3, 3))
                    = CharCodes[last.osURL]
        /\ <<last.osURL, last.bEncodeSlash>> \in DOMAIN KnownEncodings =>
              last.ret = KnownEncodings[last.osURL, last.bEncodeSlash]

\* A text with '/', unreserved bytes and other bytes, encoded with '/' kept.
C24_Witness ==
    /\ last.op = "CPLAWSURLEncode" /\ ~last.bEncodeSlash
    /\ last.osURL = "100%/=&?" /\ last.ret = "100%25/%3D%26%3F"

-----------------------------------------------------------------------------
(* Properties of the Authorization value *)

\* The names in seq for which keep is TRUE, joined with ';'.
RECURSIVE JoinKept(_, _)
JoinKept(seq, keep) ==
    IF seq = <<>> THEN ""
    ELSE IF ~keep[Head(seq)] THEN JoinKept(Tail(seq), keep)
    ELSE IF JoinKept(Tail(seq), keep) = "" THEN Head(seq)
    ELSE Head(seq) \o ";" \o JoinKept(Tail(seq), keep)

\* The header names a call of the signer can sign, in sorted order.
SignableNames ==
    <<"content-md5", "host", "x-amz-content-sha256", "x-amz-date", "x-amz-meta-a",
      "x-amz-request-payer", "x-amz-security-token">>

\* The signed headers list the last call of the signer must give.
ExpectedSignedHeaders ==
    LET payloadHeaders ==
            last.osXAMZContentSHA256 # "UNSIGNED-PAYLOAD" /\ last.bAddHeaderAMZContentSHA256
    IN JoinKept(SignableNames,
                [n \in {"host"} |-> TRUE]
                @@ [n \in {"content-md5", "x-amz-meta-a"} |-> last.psExistingHeaders # <<>>]
                @@ [n \in {"x-amz-content-sha256", "x-amz-date"} |-> payloadHeaders]
                @@ [n \in {"x-amz-request-payer"} |-> last.osRequestPayer # ""]
                @@ [n \in {"x-amz-security-token"} |-> last.osAccessToken # ""])

\* C25: the Authorization value is
\* AWS4-HMAC-SHA256 Credential=<akid>/<YYYYMMDD>/<region>/<service>/aws4_request,SignedHeaders=<list>,Signature=<hex>
\* with YYYYMMDD the first 8 characters of the timestamp and <list> the sorted,
\* ';'-joined canonical header names: host always, x-amz-content-sha256 and
\* x-amz-date iff the payload is signed and bAddHeaderAMZContentSHA256,
\* x-amz-request-payer iff there is a request payer, x-amz-security-token iff
\* there is a session token, and the lowercased names of the existing x-amz-* and
\* Content-MD5 headers.
C25_AuthorizationForm ==
    last.op = "CPLGetAWS_SIGN4_Authorization" =>
        StartsWith(last.ret,
                   "AWS4-HMAC-SHA256 Credential=" \o last.osAccessKeyId \o "/19700101/"
                   \o last.osRegion \o "/" \o last.osService \o "/aws4_request,SignedHeaders="
                   \o ExpectedSignedHeaders \o ",Signature=hmac(")

\* A call with a session token, a request payer and existing headers, whose
\* payload is signed but is not to be sent as a header.
C25_Witness ==
    /\ last.op = "CPLGetAWS_SIGN4_Authorization"
    /\ last.osAccessToken # "" /\ last.osRequestPayer # "" /\ last.psExistingHeaders # <<>>
    /\ last.osXAMZContentSHA256 # "UNSIGNED-PAYLOAD" /\ ~last.bAddHeaderAMZContentSHA256
    /\ last.osService = "sts"
    /\ StartsWith(last.ret,
                  "AWS4-HMAC-SHA256 Credential=AK/19700101/us-east-1/sts/aws4_request,SignedHeaders=content-md5;host;x-amz-meta-a;x-amz-request-payer;x-amz-security-token,Signature=")

\* The region each header block of the responses exposes.
BucketRegionIn ==
    ("x-amz-bucket-region: eu-west-1\r\nServer: AmazonS3" :> "eu-west-1")
    @@ ("Server: AmazonS3\r\nx-amz-bucket-region: us-west-2" :> "us-west-2")

C26_Step ==
    (/\ last'.op = "CanRestartOnError"
     /\ IsRedirect(last'.body)
     /\ ~h.m_bUseVirtualHosting /\ HasDot(h.m_osBucket)
     /\ RestOfEndpoint(last'.body, h.m_osBucket) # <<>>
     /\ ExposesBucketRegion(last'.pszHeaders))
        => LET R == BucketRegionIn[last'.pszHeaders[1]]
           IN /\ last'.ret
              /\ h' = [h EXCEPT !.m_osEndpoint = "s3." \o R \o ".amazonaws.com",
                                !.m_osRegion = R,
                                !.m_osURL = (IF h.m_bUseHTTPS THEN "https" ELSE "http")
                                            \o "://s3." \o R \o ".amazonaws.com/"
                                            \o h.m_osBucket \o "/" \o h.m_osObjectKey]
              /\ ~h'.m_bUseVirtualHosting

\* C26: on PermanentRedirect or TemporaryRedirect received by a path-style handle
\* of a bucket with a '.' in its name, the Endpoint starting with <bucket>. and the
\* response headers holding x-amz-bucket-region: R, CanRestartOnError returns true
\* and leaves the handle with the endpoint s3.R.amazonaws.com, the region R, path
\* style and the URL rebuilt for them, every other member as it was.
C26_DottedBucketMovesToRegionalEndpoint == [][C26_Step]_vars

\* The handle of my.bucket moved to the regional endpoint of us-west-2.
C26_Witness ==
    /\ last.op = "CanRestartOnError" /\ last.ret /\ IsRedirect(last.body)
    /\ ExposesBucketRegion(last.pszHeaders)
    /\ h.m_osBucket = "my.bucket" /\ ~h.m_bUseVirtualHosting
    /\ h.m_osRegion = "us-west-2"
    /\ h.m_osURL = "https://s3.us-west-2.amazonaws.com/my.bucket/key"

C27_Step ==
    (/\ last'.op = "CanRestartOnError"
     /\ IsRedirect(last'.body)
     /\ \/ ElementOf(last'.body, "Endpoint") = <<>>
        \/ h.m_bUseVirtualHosting /\ RestOfEndpoint(last'.body, h.m_osBucket) = <<>>)
        => /\ ~last'.ret
           /\ h' = h
           /\ last'.error = IF last'.bSetError THEN VSIE_AWSError ELSE VSIE_None
           /\ last'.bSetError
                 => last'.message = "Malformed AWS XML response: " \o last'.body.text

\* C27: on PermanentRedirect or TemporaryRedirect whose Endpoint element is
\* missing, or, for a handle under virtual hosting, does not start with <bucket>.,
\* CanRestartOnError returns false, raises the generic AWS error when bSetError,
\* and leaves the endpoint, the region and the hosting style as they were.
C27_UnusableRedirectIsMalformed == [][C27_Step]_vars

\* A handle under virtual hosting refusing the endpoint of another bucket.
C27_Witness ==
    /\ last.op = "CanRestartOnError" /\ ~last.ret /\ IsRedirect(last.body)
    /\ h.m_bUseVirtualHosting
    /\ ElementOf(last.body, "Endpoint") # <<>>
    /\ RestOfEndpoint(last.body, h.m_osBucket) = <<>>
    /\ last.error = VSIE_AWSError

\* The credentials of the handle and of the process-wide cache.
HandleCredentials(hd) == <<hd.m_osAccessKeyId, hd.m_osSecretAccessKey, hd.m_osSessionToken>>

CachedCredentials(c) == <<c.gosGlobalAccessKeyId, c.gosGlobalSecretAccessKey, c.gosGlobalSessionToken, c.gnGlobalExpiration>>

\* The step is a GetCurlHeaders or a GetSignedURL whose refresh went to the
\* provider of the handle's source, fetched, and came back false.
RefreshFailed ==
    /\ last'.op \in {"GetCurlHeaders", "GetSignedURL"}
    /\ h.m_eCredentialsSource \in {EC2, WEB_IDENTITY, ASSUMED_ROLE}
    /\ Len(last'.calls) > 0
    /\ ~last'.calls[Len(last'.calls)].ret
    /\ last'.calls[Len(last'.calls)].nFetches > 0

C28_Step ==
    RefreshFailed => /\ HandleCredentials(h') = HandleCredentials(h)
                     /\ CachedCredentials(cache') = CachedCredentials(cache)

\* C28: a refresh that fails, forced by GetSignedURL or made by GetCurlHeaders,
\* for a handle of the EC2, web identity or assumed role source, leaves the
\* credentials of the handle and the cached credentials (access key id, secret
\* key, session token, expiration) as they were before the attempt.
C28_FailedRefreshKeepsCredentials == [][C28_Step]_vars

C28_HandleStep == RefreshFailed => HandleCredentials(h') = HandleCredentials(h)

\* What holds of every failed refresh: the handle keeps its credentials.
C28_FailedRefreshKeepsHandle == [][C28_HandleStep]_vars

C28_OtherSourcesStep ==
    (RefreshFailed /\ h.m_eCredentialsSource # ASSUMED_ROLE)
        => CachedCredentials(cache') = CachedCredentials(cache)

\* What holds of the EC2 and web identity sources: the cache keeps its credentials.
C28_FailedRefreshKeepsCacheUnlessRole == [][C28_OtherSourcesStep]_vars

\* An assumed-role handle after a failed refresh: it still holds its keys, the
\* cache holds none.
C28_ClearedCache ==
    /\ last.op = "GetCurlHeaders" /\ h.m_eCredentialsSource = ASSUMED_ROLE
    /\ Len(last.calls) > 0 /\ ~last.calls[Len(last.calls)].ret
    /\ h.m_osAccessKeyId # "" /\ cache.gosGlobalAccessKeyId = ""

\* The positions at which a thread waits for an HTTP response of STS or IMDS.
FetchPositions == {"provider:fetch", "GetConfiguration:fetch"}

HoldsCacheMutex(t) == ghMutex.owner = t

HoldsBucketMutex(t) == gsMutex = t

\* C29: ghMutex and gsMutex are each held for a lookup, copy-out or copy-in only:
\* no thread waiting for an HTTP response of STS or IMDS holds either of them; and
\* no thread holds both of them.
C29_LocksHeldForCriticalSectionsOnly ==
    \A t \in Threads :
        /\ pc[t] \in FetchPositions => ~HoldsCacheMutex(t) /\ ~HoldsBucketMutex(t)
        /\ ~(HoldsCacheMutex(t) /\ HoldsBucketMutex(t))

\* What holds: no thread holds both mutexes, none waits for a response under gsMutex.
C29_NeverBothMutexes ==
    \A t \in Threads :
        /\ ~(HoldsCacheMutex(t) /\ HoldsBucketMutex(t))
        /\ pc[t] \in FetchPositions => ~HoldsBucketMutex(t)

\* What holds: GetConfiguration waits for the AssumeRole response without ghMutex,
\* every provider waits for its responses with it.
C29_ProvidersFetchUnderCacheMutex ==
    \A t \in Threads :
        /\ pc[t] = "GetConfiguration:fetch" => ~HoldsCacheMutex(t)
        /\ pc[t] = "provider:fetch" => HoldsCacheMutex(t)

\* A thread inside GetSignedURL waiting for a response with ghMutex taken twice.
C29_FetchUnderNestedHolders ==
    \E t \in Threads :
        pc[t] = "provider:fetch" /\ local[t].op = "GetSignedURL" /\ ghMutex.count = 2

\* The credentials and the expiration a response makes, when its Expiration parses.
ResultOf(resp) ==
    <<resp.AccessKeyId, resp.SecretAccessKey, resp.SessionToken, Iso8601ToUnixTime(resp.Expiration).t>>

\* What the servers of the process can issue.
ServerResponses ==
    Responses("STS", env.stsAssumeRole) \cup Responses("WEB", env.stsWebIdentity)
        \cup Responses("EC2", env.imds)

CompleteResults ==
    { ResultOf(resp) : resp \in { r \in ServerResponses : r.found /\ Iso8601ToUnixTime(r.Expiration).ok } }

\* A provider called without bForceRefresh is about to hand out what the cache holds.
ReadsCache(t) ==
    /\ pc[t] = "provider:entry" /\ ~local[t].bForceRefresh
    /\ CredentialsStillValid(cache, now)

\* The thread that holds ghMutex takes a step.
OwnerSteps == ghMutex.owner \in Threads /\ pc'[ghMutex.owner] # pc[ghMutex.owner]

C30_WriteStep == cache' # cache => OwnerSteps

C30_ReadStep == \A t \in Threads : ReadsCache(t) => CachedCredentials(cache) \in CompleteResults

C30_StoreStep ==
    \A t \in Threads :
        (pc[t] = "GetConfiguration:1672" /\ pc'[t] = "idle")
            => CachedCredentials(cache') = ResultOf(local[t].resp)

C30_Step == C30_WriteStep /\ C30_ReadStep /\ C30_StoreStep

\* C30: under every interleaving of resolutions, refreshes and ClearCache, the
\* cache is written only by the thread that holds ghMutex; a thread that reads
\* the cache under the mutex obtains an access key, a secret key, a session token
\* and an expiration that one response issued together; and the thread that
\* writes last leaves its complete result in the cache.
C30_CacheRewrittenAtomically == [][C30_Step]_vars

\* What holds: every write of the cache is made by the holder of ghMutex.
C30_WritesUnderMutex == [][C30_WriteStep]_vars

\* A reader about to obtain keys of one response with the expiration of another.
C30_TornRead ==
    \E t \in Threads : ReadsCache(t) /\ CachedCredentials(cache) \notin CompleteResults

-----------------------------------------------------------------------------
(* Properties of the handle's URL *)

\* One parameter of a query string as the claim describes it: the key alone when
\* the value is empty, else key=value with the value percent-encoded.
QueryParameterText(m, key) ==
    IF m[key] = "" THEN key ELSE key \o "=" \o CPLAWSURLEncode(m[key], TRUE)

\* The parameters of the handle's query map, sorted by key.
ExpectedParameters(hd) ==
    [k \in 1..Cardinality(DOMAIN hd.m_oMapQueryParameters) |->
        QueryParameterText(hd.m_oMapQueryParameters,
                           SortedKeys(DOMAIN hd.m_oMapQueryParameters)[k])]

\* C31: after construction and after any sequence of SetEndpoint,
\* SetVirtualHosting, AddQueryParameter, ResetQueryParameters, CanRestartOnError
\* and GetSignedURL, the URL of the handle is BuildURL(endpoint, bucket, key,
\* use_https, use_virtual_hosting) followed by the query string of its query map:
\* the parameters sorted by key, after '?' and between '&', without '=value' for
\* an empty value.
C31_URLDerivedFromFields ==
    h.exists =>
        /\ h.m_osURL = BuildURL(h.m_osEndpoint, h.m_osBucket, h.m_osObjectKey,
                                h.m_bUseHTTPS, h.m_bUseVirtualHosting)
                       \o GetQueryString(h, FALSE)
        /\ ParametersOf(QueryOf(h.m_osURL)) = ExpectedParameters(h)
        /\ (h.m_oMapQueryParameters = <<>>) = (PositionsOf(h.m_osURL, "?") = {})

\* A handle that holds a parameter without value and one with a value has been
\* moved to another endpoint by a redirect.
C31_Witness ==
    /\ last.op = "CanRestartOnError" /\ last.ret
    /\ h.m_osEndpoint = "s3.eu-west-1.amazonaws.com"
    /\ {"uploads", "prefix"} \subseteq DOMAIN h.m_oMapQueryParameters
    /\ C31_URLDerivedFromFields

-----------------------------------------------------------------------------
(* Properties of the destruction of a handle *)

AllZero(bytes) == \A i \in DOMAIN bytes : bytes[i] = 0

\* C32: when a handle is destroyed, every byte of its secret access key and every
\* byte of its session token has been overwritten with zero before the storage
\* of the strings is released.
C32_SecretsZeroedOnDestruction ==
    last.op = "~VSIS3HandleHelper" =>
        /\ AllZero(last.released.m_osSecretAccessKey)
        /\ AllZero(last.released.m_osSessionToken)

\* The part of C32 that holds: the secret access key is overwritten, byte for
\* byte, whatever its length.
C32_SecretAccessKeyZeroed ==
    last.op = "~VSIS3HandleHelper" =>
        /\ Len(last.released.m_osSecretAccessKey) = Len(last.before.m_osSecretAccessKey)
        /\ AllZero(last.released.m_osSecretAccessKey)

\* A handle with a secret access key and a session token has been destroyed.
C32_TokenReleased ==
    /\ last.op = "~VSIS3HandleHelper"
    /\ last.before.m_osSecretAccessKey # ""
    /\ last.before.m_osSessionToken # ""

-----------------------------------------------------------------------------
(* Properties of the source tag of cached credentials *)

\* The provider that issued an access key id: the servers name their keys.
IssuerOf(osAccessKeyId) ==
    IF StartsWith(osAccessKeyId, "AK_EC2") THEN EC2
    ELSE IF StartsWith(osAccessKeyId, "AK_WEB") THEN WEB_IDENTITY
    ELSE IF StartsWith(osAccessKeyId, "AK_STS") THEN ASSUMED_ROLE
    ELSE REGULAR

\* A BuildFromURI that succeeded with credentials of a provider.
ResolvedFromProvider ==
    /\ last.op = "BuildFromURI" /\ last.gc.ret
    /\ IssuerOf(last.gc.osAccessKeyId) # REGULAR

\* C33: a resolve reports the source tag of the resolve that populated the cache:
\* credentials fetched from IMDS are never returned tagged WEB_IDENTITY, nor
\* credentials of the web identity tagged EC2, in any sequence of BuildFromURI.
C33_SourceTagMatchesIssuer ==
    ResolvedFromProvider => last.gc.eCredentialsSource = IssuerOf(last.gc.osAccessKeyId)

\* The part of C33 that holds: credentials of the web identity and of an assumed
\* role are returned under their own tag, and a resolve that fetches tags what it
\* fetched with its own source.
C33_OnlyIMDSIsMistagged ==
    ResolvedFromProvider =>
        \/ last.gc.eCredentialsSource = IssuerOf(last.gc.osAccessKeyId)
        \/ /\ IssuerOf(last.gc.osAccessKeyId) = EC2
           /\ last.gc.eCredentialsSource = WEB_IDENTITY
           /\ last.gc.fetches = <<>>

\* Credentials of IMDS came back from the cache tagged WEB_IDENTITY.
C33_MistaggedReuse ==
    /\ ResolvedFromProvider
    /\ IssuerOf(last.gc.osAccessKeyId) = EC2
    /\ last.gc.eCredentialsSource = WEB_IDENTITY
    /\ h.m_eCredentialsSource = WEB_IDENTITY

-----------------------------------------------------------------------------
(* Properties of the refresh of a handle *)

\* The provider always answers with credentials in this process: IMDS or the
\* container endpoint, the STS of the web identity, or the STS that assumes the
\* cached role (and the STS of the web identity its source credentials come from).
Answering(source) ==
    IF source = EC2
    THEN /\ env.imds = {"up"} /\ env.imdsRoles = {"r1"}
         /\ \/ IsMachinePotentiallyEC2Instance(env)
            \/ VSIGetPathSpecificOption(env, "AWS_CONTAINER_CREDENTIALS_RELATIVE_URI", "") # ""
    ELSE IF source = WEB_IDENTITY THEN env.stsWebIdentity = {"up"}
    ELSE IF source = ASSUMED_ROLE
    THEN /\ env.stsAssumeRole = {"up"}
         /\ cache.gosRoleArnWebIdentity # "" => env.stsWebIdentity = {"up"}
    ELSE FALSE

\* The handle holds credentials a provider issued, that provider answers, and the
\* cached credentials are within Margin seconds of their expiration or past it.
DueForRefresh ==
    /\ h.exists
    /\ h.m_eCredentialsSource # REGULAR
    /\ Answering(IssuerOf(h.m_osAccessKeyId))
    /\ cache.gosGlobalAccessKeyId = h.m_osAccessKeyId
    /\ now >= cache.gnGlobalExpiration - Margin

\* GetCurlHeaders fetched, and the handle holds what was fetched and cached.
Refreshed ==
    /\ last'.fetches # <<>>
    /\ cache'.gosGlobalAccessKeyId # ""
    /\ HandleCredentials(h') = SubSeq(CachedCredentials(cache'), 1, 3)

C34_Step == (last'.op = "GetCurlHeaders" /\ DueForRefresh) => Refreshed

\* C34: a GetCurlHeaders call on a handle whose credentials a reachable dynamic
\* provider issued, made when the cached credentials are within 60 s of their
\* expiration, ends with the handle holding freshly fetched credentials: the
\* handle does not keep signing with expired credentials while their provider
\* answers.
C34_DueHandleIsRefreshed == [][C34_Step]_vars

C34_TaggedStep ==
    (last'.op = "GetCurlHeaders" /\ DueForRefresh
     /\ h.m_eCredentialsSource = IssuerOf(h.m_osAccessKeyId))
    => Refreshed

\* The part of C34 that holds: a handle whose tag names the provider of its
\* credentials is refreshed.
C34_RightlyTaggedHandleIsRefreshed == [][C34_TaggedStep]_vars

\* A handle with expired IMDS credentials has signed a request without a fetch.
C34_SignedWithExpired ==
    /\ last.op = "GetCurlHeaders" /\ last.fetches = <<>>
    /\ h.exists /\ IssuerOf(h.m_osAccessKeyId) = EC2 /\ Answering(EC2)
    /\ cache.gosGlobalAccessKeyId = h.m_osAccessKeyId
    /\ now >= cache.gnGlobalExpiration

-----------------------------------------------------------------------------
(* Properties of a CanRestartOnError that returns false *)

\* What CanRestartOnError may adapt: endpoint, region, hosting style, query
\* parameters and URL.
Addressing(hd) ==
    <<hd.m_osEndpoint, hd.m_osRegion, hd.m_bUseVirtualHosting, hd.m_oMapQueryParameters,
      hd.m_osURL>>

C35_Step ==
    (last'.op = "CanRestartOnError" /\ ~last'.ret) => Addressing(h') = Addressing(h)

\* C35: whenever CanRestartOnError returns false (body that is not XML, XML that
\* does not parse, no Code, no Region or Endpoint, Endpoint that does not match
\* the bucket, or a code that is no redirect), endpoint, region, hosting style,
\* query parameters and URL of the handle are what they were before the call.
C35_FalseLeavesHandleAlone == [][C35_Step]_vars

\* A handle with query parameters, addressed in virtual hosting, met a redirect
\* to an endpoint that does not start with its bucket: the call returned false.
C35_Witness ==
    /\ last.op = "CanRestartOnError" /\ ~last.ret
    /\ IsRedirect(last.body) /\ ElementOf(last.body, "Endpoint") # <<>>
    /\ h.m_bUseVirtualHosting
    /\ DOMAIN h.m_oMapQueryParameters = {"uploads", "prefix"}

-----------------------------------------------------------------------------
(* Properties of the handle after GetSignedURL *)

\* The query map of the handle holds the presign parameters and nothing else, and
\* the URL of the handle is the URL returned.
HoldsPresignParametersOnly ==
    /\ DOMAIN h'.m_oMapQueryParameters = PresignNames(h'.m_osSessionToken)
    /\ \A kv \in HandleQueryParameters : kv[1] \notin DOMAIN h'.m_oMapQueryParameters
    /\ h'.m_osURL = last'.ret

\* The head of the canonical request of a request for the handle: the verb, the
\* canonical URI and the query string of the query map, '=' after every key.
CanonicalRequestHead(hd, osVerb) ==
    osVerb \o "\n"
    \o CPLAWSURLEncode(IF hd.m_bUseVirtualHosting THEN "/" \o hd.m_osObjectKey
                       ELSE "/" \o hd.m_osBucket \o "/" \o hd.m_osObjectKey, FALSE)
    \o "\n" \o SubSeq(GetQueryString(hd, TRUE), 2, Len(GetQueryString(hd, TRUE))) \o "\n"

\* A GetCurlHeaders on a handle that holds the presign parameters signs a
\* canonical query string made of them.
C36_HeadersStep ==
    (/\ last'.op = "GetCurlHeaders" /\ last'.auth # <<>>
     /\ DOMAIN h.m_oMapQueryParameters = PresignNames(h.m_osSessionToken))
    => StartsWith(last'.auth[1].sig.osCanonicalRequest,
                  CanonicalRequestHead(h, last'.request.osVerb))

C36_AnyReturnStep == last'.op = "GetSignedURL" => HoldsPresignParametersOnly

\* C36: GetSignedURL discards every query parameter the handle held before the
\* call; after it returns, the query map of the handle holds exactly the presign
\* parameters and the URL of the handle is the URL returned, so a later
\* GetCurlHeaders on the handle signs a canonical query string with those
\* parameters.
C36_SignedURLReplacesQuery == [][C36_AnyReturnStep /\ C36_HeadersStep]_vars

C36_URLReturnedStep ==
    (last'.op = "GetSignedURL" /\ last'.ret # "") => HoldsPresignParametersOnly

C36_ErrorStep ==
    (last'.op = "GetSignedURL" /\ last'.ret = "") => h' = h

\* C36, amended: a GetSignedURL that returns a URL does all that; one that
\* returns the empty string (a start date that does not parse, on a handle whose
\* source is not REGULAR) leaves the handle as it was.
C36_ReturnedURLReplacesQuery ==
    [][C36_URLReturnedStep /\ C36_ErrorStep /\ C36_HeadersStep]_vars

\* A presigned URL was returned for a handle that held "uploads" and "prefix".
C36_Witness ==
    /\ last.op = "GetSignedURL" /\ last.ret # ""
    /\ DOMAIN last.before.m_oMapQueryParameters = {"uploads", "prefix"}
    /\ DOMAIN h.m_oMapQueryParameters = PresignNames(h.m_osSessionToken)

\* A handle that holds the presign parameters and a session token has signed a
\* request.
C36_SignedAfterPresign ==
    /\ last.op = "GetCurlHeaders" /\ last.auth # <<>>
    /\ DOMAIN h.m_oMapQueryParameters = PresignNames(h.m_osSessionToken)
    /\ h.m_osSessionToken # ""

\* The CPLMutexHolder objects of ghMutex that are in scope for a thread: the one
\* of GetSignedURL() (line 2253) from its lock to its unlock, and the one of the
\* provider, of "Store global variables" or of ClearCache() the thread is in.
HoldersInScope(t) ==
    (IF local[t].op = "GetSignedURL" THEN 1 ELSE 0)
    + (IF pc[t] \in {"provider:entry", "provider:fetch", "GetConfiguration:1672",
                     "ClearCache:1748"} THEN 1 ELSE 0)

\* A thread that is at the CPLMutexHolder of a provider under the holder of
\* GetSignedURL().
WaitsUnderOwnHolder(t) == pc[t] = "provider:lock" /\ HoldsCacheMutex(t)

CacheReadPositions ==
    {"provider:entry", "provider:fetch", "GetSignedURL:2258", "GetConfiguration:1635"}

\* C38: a thread that is about to read a field of the credential cache holds
\* ghMutex, so that no other thread is inside a scope that writes the cache.
C38_ReadsUnderCacheMutex ==
    \A t \in Threads : pc[t] \in CacheReadPositions => HoldsCacheMutex(t)

\* What holds: the providers and GetSignedURL() read the cache under ghMutex.
C38_ProvidersReadUnderCacheMutex ==
    \A t \in Threads :
        pc[t] \in CacheReadPositions \ {"GetConfiguration:1635"} => HoldsCacheMutex(t)

\* GetConfiguration() tests gosRoleArnWebIdentity while another thread is inside
\* ClearCache(), which clears it.
C38_RacingRead ==
    \E t, u \in Threads :
        /\ pc[t] = "GetConfiguration:1635" /\ ~HoldsCacheMutex(t)
        /\ pc[u] = "ClearCache:1748" /\ HoldsCacheMutex(u)

\* A resolution or a refresh of the assumed role source has succeeded in this step.
RoleSucceeded ==
    \/ /\ last'.op = "BuildFromURI"
       /\ last'.gc.ret /\ last'.gc.eCredentialsSource = ASSUMED_ROLE
    \/ /\ last'.op = "GetCurlHeaders"
       /\ h.m_eCredentialsSource = ASSUMED_ROLE
       /\ Len(last'.calls) > 0 /\ last'.calls[Len(last'.calls)].ret

\* The access key id and the secret access key the caller got in this step.
ReturnedKeys ==
    IF last'.op = "BuildFromURI" THEN <<last'.gc.osAccessKeyId, last'.gc.osSecretAccessKey>>
    ELSE <<h'.m_osAccessKeyId, h'.m_osSecretAccessKey>>

\* The AssumeRole responses that carry both keys and an Expiration that parses.
CompleteRoleResponses ==
    { resp \in Responses("STS", env.stsAssumeRole) :
          /\ resp.found /\ resp.AccessKeyId # "" /\ resp.SecretAccessKey # ""
          /\ Iso8601ToUnixTime(resp.Expiration).ok }

C39_Step ==
    RoleSucceeded
        => /\ ReturnedKeys[1] # "" /\ ReturnedKeys[2] # ""
           /\ \E resp \in CompleteRoleResponses :
                  /\ ReturnedKeys = <<resp.AccessKeyId, resp.SecretAccessKey>>
                  /\ CachedCredentials(cache') = ResultOf(resp)

\* C39: whenever a resolution or a refresh succeeds with the source ASSUMED_ROLE,
\* the access key id and the secret access key it returns are not empty and are
\* those of an AssumeRole response that carries both keys and an Expiration that
\* parses, and the cache holds the keys and the expiration of that response.
C39_RoleSuccessIsComplete == [][C39_Step]_vars

C39_ResponseStep ==
    RoleSucceeded
        => \E resp \in Responses("STS", env.stsAssumeRole) :
               /\ resp.found
               /\ ReturnedKeys = <<resp.AccessKeyId, resp.SecretAccessKey>>
               /\ SubSeq(CachedCredentials(cache'), 1, 3) = SubSeq(ResultOf(resp), 1, 3)
               /\ Iso8601ToUnixTime(resp.Expiration).ok
                      => cache'.gnGlobalExpiration = Iso8601ToUnixTime(resp.Expiration).t

\* What holds: a success returns and caches the keys of one AssumeRole response
\* that has a Credentials element, with its expiration when that one parses.
C39_RoleSuccessIsOneResponse == [][C39_ResponseStep]_vars

\* A handle of the assumed role source that was given an empty access key id.
C39_EmptyKeyAccepted ==
    /\ h.exists /\ h.m_eCredentialsSource = ASSUMED_ROLE
    /\ h.m_osAccessKeyId = "" /\ h.m_osSecretAccessKey # ""

\* The keys of the response whose Expiration does not parse, cached with the
\* expiration of an earlier response.
C39_StaleExpiration ==
    /\ cache.gosGlobalAccessKeyId = "AK_STS5"
    /\ cache.gnGlobalExpiration \in {ExpA, ExpB}

\* GetCurlHeaders() in this step, on a handle of the assumed role source, with the
\* cache as ClearCache() leaves it.
UseAfterClearCache ==
    /\ last'.op = "GetCurlHeaders"
    /\ h.m_eCredentialsSource = ASSUMED_ROLE
    /\ cache = ClearedCache(cache)

\* BuildFromURI() in this step, with the cache as ClearCache() leaves it.
BuildAfterClearCache == last'.op = "BuildFromURI" /\ cache = ClearedCache(cache)

\* The role and the source credentials of the cache.
CachedRole(c) ==
    <<c.gosRoleArn, c.gosSourceProfileAccessKeyId, c.gosSourceProfileSecretAccessKey>>

C40_UseStep ==
    UseAfterClearCache
        => /\ last'.fetches = <<"sts:AssumeRole">>
           /\ Len(last'.calls) = 1
           /\ last'.calls[1].fn = "GetOrRefreshTemporaryCredentialsForRole"
           /\ CachedRole(cache') = <<"", "", "">>
           /\ ~last'.calls[1].ret
                  => /\ h' = h
                     /\ last'.auth = SignedHeaders(h, now, env, last'.request.osVerb,
                                                   last'.request.psExistingHeaders,
                                                   last'.request.data).auth

C40_BuildStep ==
    BuildAfterClearCache
        => /\ Last(last'.gc.consulted) # SRC_CACHED_ROLE
           /\ \E i \in 1..Len(last'.gc.consulted) : last'.gc.consulted[i] = SRC_CONFIG_FILES
           /\ last'.gc.ret
                  => /\ last'.gc.fetches = <<"sts:AssumeRole">>
                     /\ CachedRole(cache') = <<"arn:role", "AK_src", "SK_src">>

C40_Step == C40_UseStep /\ C40_BuildStep

\* C40: after ClearCache(), GetCurlHeaders() on a handle of the assumed role
\* source sends an AssumeRole request for the role of the cache, which is empty,
\* and leaves the role and the source credentials of the cache empty; when that
\* refresh fails the handle is unchanged and the request is signed with the
\* credentials the handle held; BuildFromURI() reads the config files again and
\* on success records their role and the source credentials in the cache.
C40_ClearCacheThenUse == [][C40_Step]_vars

\* A handle of the assumed role source that has signed a request with its own
\* keys after ClearCache() and a failed refresh.
C40_Witness ==
    /\ last.op = "GetCurlHeaders"
    /\ h.m_eCredentialsSource = ASSUMED_ROLE /\ h.m_osAccessKeyId # ""
    /\ cache = ClearedCache(cache)
    /\ Len(last.calls) = 1 /\ ~last.calls[1].ret
    /\ last.auth # <<>>

====
